---- MODULE Spec2Model ----
(***************************************************************************)
(* State-machine model of memory.js: the retry engine                      *)
(* fetchWithCognitiveRetry and the pipeline processMemoryChat (Director    *)
(* mode and Standard mode) with its detached persistence task.             *)
(*                                                                         *)
(* JavaScript runs one task at a time, from one await to the next.  A task *)
(* of the model is either parked at an await (waiting for the inference    *)
(* service, the storage service or a timer) or holds the thread.  The      *)
(* actions of the services and timers are enabled only while no task holds *)
(* the thread (ThreadFree), so the code between two awaits is never        *)
(* interleaved with another task.                                          *)
(***************************************************************************)
EXTENDS Integers, Sequences, FiniteSets, TLC

VARIABLES
    eng,        \* per task: the running invocation of fetchWithCognitiveRetry
    pc,         \* position of the turn (processMemoryChat) task
    inp,        \* arguments of the running turn and the localStorage url
    aiRes,      \* Director mode: the parsed DirectorAI classification
    loc,        \* locals of the running turn
    sreq,       \* per task: the storage request it awaits ("none" if none)
    outcome,    \* "idle" | "running" | "replied" | "rejected"
    reply,      \* the value processMemoryChat resolved with
    calls,      \* labels of the engine invocations made by the running turn
    storeReqs,  \* storage actions dispatched by the running turn, in order
    graphs,     \* arguments of the running turn's window.updateGraphData calls
    currentMood,\* window.currentMood ("" while undefined)
    cache,      \* window.lastRetrievedMemories
    chatHistory,\* window.chatHistory
    boot,       \* initializeSymbiosisSession: its position, the answer it read
    scan,       \* Global Retrieval's deep anchor: its inputs and what it found
    ppc,        \* position of the detached persistence task
    ploc,       \* locals of the detached persistence task
    writes      \* store_atomic writes dispatched by the persistence task

vars == <<eng, pc, inp, aiRes, loc, sreq, outcome, reply, calls, storeReqs,
          graphs, currentMood, cache, chatHistory, boot, scan, ppc, ploc,
          writes>>

\* the turn's own variables, the window globals, the persistence task's
turnVars    == <<pc, inp, aiRes, loc, outcome, reply, calls, storeReqs, graphs,
                 currentMood>>
sessionVars == <<chatHistory, boot>>
windowVars  == <<cache, sessionVars, scan>>
persistVars == <<ppc, ploc, writes>>

Tasks == {"turn", "persist"}

\* ------------------------------------------------------------------ values

\* const MAX_RETRIES = 3
MAX_RETRIES == 3

\* let delay = 1000 (milliseconds)
InitialDelay == 1000

\* a JSON object without members
EmptyObj == [x \in {} |-> x]

\* o.f is not undefined
Has(o, f) == f \in DOMAIN o

\* o.f is a truthy string
TruthyStr(o, f) == Has(o, f) /\ o[f] # ""

\* the object o with member f set to v
With(o, f, v) == (f :> v) @@ o

\* the objects made of base and any subset of the optional members
Optional(base, f, vals) == {base} \cup {With(base, f, v) : v \in vals}

\* ------------------------------------------------- inference-service bodies
\* What the inference service may put in choices[0].message.content, per call
\* site: the objects the call site's code distinguishes, and objects its
\* validator rejects.

\* upper bound on the number of entries one Analysis response carries
MaxEntries == 2

\* most rows in a get_recent_chat answer
MaxRows == 2

\* most entities one retrieve_director_memory answer names
MaxDiscovered == 17

\* most messages in the history passed to a turn
MaxHistory == 6

EntryKinds ==
    { [fact |-> "likes tea", entities |-> "Arvin", topics |-> "Preference",
       importance |-> 3],
      [fact |-> "went to zoo", entities |-> "Arvin", topics |-> "History",
       importance |-> 4],
      [fact |-> "null", entities |-> "", topics |-> "", importance |-> 3] }

RECURSIVE SeqsUpTo(_, _)
SeqsUpTo(S, n) ==
    IF n = 0 THEN {<<>>}
    ELSE LET shorter == SeqsUpTo(S, n - 1)
         IN  shorter \cup {Append(q, x) : q \in shorter, x \in S}

\* knowledge graphs a Generation answer may carry: one root with a branch and a
\* leaf, and roots without branches
TeaRoot ==
    [label |-> "TEA", mood |-> "calm",
     branches |-> <<[label |-> "Green", mood |-> " warm ",
                     leaves |-> <<[text |-> "Cup", mood |-> "calm"]>>]>>]

BareRoot == [label |-> "TEA"]

DirectorAIBodies ==
    LET chat   == Optional([intent |-> "CHAT"], "positive_constraints",
                           {<<>>, <<"Brent">>})
        store  == { [intent |-> "STORE", fact_to_store |-> "Brent is tall",
                     entity_name |-> "Brent", response |-> "Noted."],
                    [intent |-> "STORE", fact_to_store |-> "Brent is tall"],
                    [intent |-> "STORE", fact_to_store |-> "he is tall"],
                    [intent |-> "STORE"] }
        search == UNION { Optional(b, "response", {"<<Brent>>"}) :
                          b \in UNION { Optional(c, "negative_constraints", {<<"solo">>}) :
                                        c \in Optional([intent |-> "SEARCH"],
                                                       "positive_constraints",
                                                       {<<"Brent">>, <<"Brent", "Cody">>}) } }
        other  == Optional([intent |-> "DELETE"], "response", {"Right."})
    IN  chat \cup store \cup search \cup other \cup {[response |-> "Hello."]}

Bodies(label) ==
    CASE label = "DirectorAI" -> DirectorAIBodies
      [] label = "DirectorFilter" ->
            {[matches |-> <<>>], [matches |-> <<"Cody">>], [reasoning |-> "none"]}
      [] label = "DirectorContextChat" ->
            {[response |-> "Cody fits.", mood |-> "CRYPTIC"], [mood |-> "CRYPTIC"]}
      [] label = "DirectorDedup" ->
            {[is_duplicate |-> TRUE], [is_duplicate |-> FALSE],
             [is_duplicate |-> TRUE, is_contradiction |-> TRUE,
              warning_message |-> "Conflict."],
             [is_duplicate |-> FALSE, is_contradiction |-> TRUE,
              warning_message |-> "Conflict."],
             [is_duplicate |-> FALSE, is_contradiction |-> FALSE],
             [warning_message |-> "Conflict."]}
      [] label = "DirectorAmbiguity" ->
            {[status |-> "AMBIGUOUS", clarification_question |-> "Which Brent?"],
             [status |-> "AMBIGUOUS"],
             [status |-> "RESOLVED", resolved_names |-> <<>>],
             [status |-> "RESOLVED", resolved_names |-> <<"Brent", "Cody">>],
             [status |-> "RESOLVED"],
             [status |-> "UNSURE"],
             [resolved_names |-> <<>>]}
      [] label = "Hybrid Analysis" ->
            { [search_keywords |-> <<"Tea">>, entries |-> es] :
                  es \in SeqsUpTo(EntryKinds, MaxEntries) }
            \cup {[search_keywords |-> <<"Tea">>], [entries |-> <<>>]}
      [] label = "Timekeeper" ->
            {[valid |-> TRUE], [valid |-> TRUE, rewritten_fact |-> "went to zoo in 2024"],
             [valid |-> FALSE], [rewritten_fact |-> "went to zoo"]}
      [] label = "Interceptor" ->
            {[response |-> "When was that?"], EmptyObj}
      [] label = "Generation" ->
            {[response |-> "Nice.", mood |-> "joyful"],
             [response |-> "Where does Jemi work", mood |-> "CURIOUS", roots |-> <<>>],
             [response |-> "Tea.", mood |-> "calm", roots |-> <<TeaRoot>>],
             [response |-> "Tea.", mood |-> "calm",
              roots |-> <<BareRoot, BareRoot, BareRoot, BareRoot>>],
             [response |-> "Nice."], [mood |-> "JOYFUL"]}
      [] label = "RedundancyCheck" ->
            {[is_redundant |-> TRUE], [is_redundant |-> FALSE], EmptyObj}
      [] label = "CorrectionGeneration" ->
            {[response |-> "New topic?", mood |-> "CURIOUS"],
             [response |-> "New topic?"], [mood |-> "CURIOUS"]}
      [] label = "DedupRefine" ->
            {[status |-> "DUPLICATE"], [status |-> "NEW"],
             [status |-> "NEW", better_fact |-> "visited the zoo",
              better_entities |-> "Zoo"],
             [status |-> "NEW", better_fact |-> "zoo"],
             [better_fact |-> "visited the zoo"]}

Labels ==
    {"DirectorAI", "DirectorFilter", "DirectorContextChat", "DirectorDedup",
     "DirectorAmbiguity", "Hybrid Analysis", "Timekeeper", "Interceptor",
     "Generation", "RedundancyCheck", "CorrectionGeneration", "DedupRefine"}

\* The validatorFn each call site passes to fetchWithCognitiveRetry.
Validator(label, d) ==
    CASE label = "DirectorAI"           -> TruthyStr(d, "intent")
      [] label = "DirectorFilter"       -> Has(d, "matches")
      [] label = "DirectorContextChat"  -> TruthyStr(d, "response")
      [] label = "DirectorDedup"        -> Has(d, "is_duplicate") /\ d.is_duplicate \in BOOLEAN
      [] label = "DirectorAmbiguity"    -> TruthyStr(d, "status")
      [] label = "Hybrid Analysis"      -> Has(d, "search_keywords")
      [] label = "Timekeeper"           -> Has(d, "valid") /\ d.valid \in BOOLEAN
      [] label = "Interceptor"          -> TruthyStr(d, "response")
      [] label = "Generation"           -> TruthyStr(d, "response") /\ TruthyStr(d, "mood")
      [] label = "RedundancyCheck"      -> Has(d, "is_redundant") /\ d.is_redundant \in BOOLEAN
      [] label = "CorrectionGeneration" -> TruthyStr(d, "response")
      [] label = "DedupRefine"          -> TruthyStr(d, "status")

\* ------------------------------------------------ fetchWithCognitiveRetry

\* no value
NoResult == EmptyObj

\* return { parsed: { mood: "NEUTRAL", response: "..." }, cleaned: '...' }
Fallback ==
    [parsed  |-> [mood |-> "NEUTRAL", response |-> "..."],
     cleaned |-> [mood |-> "NEUTRAL", response |-> "..."]]

\* return { raw: data, parsed: parsedContent, cleaned: content }
Success(d) == [raw |-> TRUE, parsed |-> d, cleaned |-> d]

IdleEngine ==
    [epc |-> "idle", label |-> "", attempts |-> 0, delay |-> InitialDelay,
     timer |-> FALSE, requests |-> 0, waits |-> <<>>, authAt |-> 0,
     parsedContent |-> <<>>, result |-> NoResult]

\* The call up to its first await: attempts = 0, delay = 1000, the loop test,
\* the deadline timer armed and the request sent.
Invoked(label) ==
    [IdleEngine EXCEPT !.epc = "fetch", !.label = label, !.timer = TRUE,
                       !.requests = 1]

\* Catch with the exhaustion test off by one (attempts > MAX_RETRIES)
CatchOffByOne(e, what) ==
    LET a    == e.attempts + 1
        seen == IF what = "auth" /\ e.authAt = 0 THEN e.requests ELSE e.authAt
    IN  IF a > MAX_RETRIES
        THEN [e EXCEPT !.attempts = a, !.authAt = seen, !.timer = FALSE,
                       !.epc = "returned", !.result = Fallback]
        ELSE [e EXCEPT !.attempts = a, !.authAt = seen, !.timer = FALSE,
                       !.epc = "sleep"]

\* Catch that rethrows the last error on exhaustion instead of returning the
\* fallback
CatchRethrow(e, what) ==
    LET a    == e.attempts + 1
        seen == IF what = "auth" /\ e.authAt = 0 THEN e.requests ELSE e.authAt
    IN  IF a >= MAX_RETRIES
        THEN [e EXCEPT !.attempts = a, !.authAt = seen, !.timer = FALSE,
                       !.epc = "threw"]
        ELSE [e EXCEPT !.attempts = a, !.authAt = seen, !.timer = FALSE,
                       !.epc = "sleep"]

\* catch (error): attempts++, then the fallback once attempts >= MAX_RETRIES,
\* else the backoff sleep.  what names the failure; authAt records the
\* request that was answered 401 or 403 (0: none so far).
Catch(e, what) ==
    LET a    == e.attempts + 1
        seen == IF what = "auth" /\ e.authAt = 0 THEN e.requests ELSE e.authAt
    IN  IF a >= MAX_RETRIES
        THEN [e EXCEPT !.attempts = a, !.authAt = seen, !.timer = FALSE,
                       !.epc = "returned", !.result = Fallback]
        ELSE [e EXCEPT !.attempts = a, !.authAt = seen, !.timer = FALSE,
                       !.epc = "sleep"]

\* if (!response.ok): both branches throw inside the try block
StatusCheck(e, status) ==
    IF status = 200
    THEN [e EXCEPT !.timer = FALSE, !.epc = "body"]
    ELSE Catch(e, IF status \in {401, 403} THEN "auth" ELSE "status")

\* Validate that hands a passing content back only from the second attempt on
ValidateRetriesFirstPass(e, d) ==
    IF Validator(e.label, d) /\ e.attempts > 0
    THEN [e EXCEPT !.parsedContent = <<d>>, !.epc = "returned",
                   !.result = Success(d)]
    ELSE Catch([e EXCEPT !.parsedContent = <<d>>], "invalid")

\* parsedContent = JSON.parse(...) has given d (kept as <<d>>; <<>> while
\* this iteration has parsed nothing);
\* if (validatorFn(parsedContent)) return {...} else throw
Validate(e, d) ==
    IF Validator(e.label, d)
    THEN [e EXCEPT !.parsedContent = <<d>>, !.epc = "returned",
                   !.result = Success(d)]
    ELSE Catch([e EXCEPT !.parsedContent = <<d>>], "invalid")

\* Resume without delay *= 2
ResumeNoDoubling(e) ==
    [e EXCEPT !.waits = Append(@, e.delay), !.parsedContent = <<>>,
              !.epc = "fetch", !.timer = TRUE, !.requests = @ + 1]

\* after the sleep: delay *= 2, the loop test, the next request under a new
\* deadline timer
Resume(e) ==
    [e EXCEPT !.waits = Append(@, e.delay), !.delay = e.delay * 2,
              !.parsedContent = <<>>,
              !.epc = "fetch", !.timer = TRUE, !.requests = @ + 1]

\* the thread is free: no task is between two awaits
ThreadFree ==
    \A t \in Tasks : eng[t].epc # "returned" /\ sreq[t].st \notin {"rejected", "badbody", "json"}

Statuses == {200, 401, 403, 429, 500}

\* the deadline timer fires before any response: controller.abort() rejects
\* the fetch
FetchTimeout(t) ==
    /\ ThreadFree
    /\ eng[t].epc = "fetch"
    /\ eng[t].timer
    /\ eng' = [eng EXCEPT ![t] = Catch(@, "timeout")]
    /\ UNCHANGED <<sreq, turnVars, windowVars, persistVars>>

\* the fetch rejects (network failure)
FetchNetworkError(t) ==
    /\ ThreadFree
    /\ eng[t].epc = "fetch"
    /\ eng' = [eng EXCEPT ![t] = Catch(@, "network")]
    /\ UNCHANGED <<sreq, turnVars, windowVars, persistVars>>

\* the response headers arrive: clearTimeout, then the status check
FetchResponse(t) ==
    /\ ThreadFree
    /\ eng[t].epc = "fetch"
    /\ \E status \in Statuses : eng' = [eng EXCEPT ![t] = StatusCheck(@, status)]
    /\ UNCHANGED <<sreq, turnVars, windowVars, persistVars>>

\* response.json() rejects, or JSON.parse(content) throws
BodyMalformed(t) ==
    /\ ThreadFree
    /\ eng[t].epc = "body"
    /\ eng' = [eng EXCEPT ![t] = Catch(@, "malformed")]
    /\ UNCHANGED <<sreq, turnVars, windowVars, persistVars>>

\* the body arrives and its content parses to d
BodyParsed(t) ==
    /\ ThreadFree
    /\ eng[t].epc = "body"
    /\ \E d \in Bodies(eng[t].label) : eng' = [eng EXCEPT ![t] = Validate(@, d)]
    /\ UNCHANGED <<sreq, turnVars, windowVars, persistVars>>

\* the backoff sleep ends
BackoffElapsed(t) ==
    /\ ThreadFree
    /\ eng[t].epc = "sleep"
    /\ eng' = [eng EXCEPT ![t] = Resume(@)]
    /\ UNCHANGED <<sreq, turnVars, windowVars, persistVars>>

\* -------------------------------------------------------------------- text
\* JavaScript strings are TLA+ strings; Len, SubSeq and \o act on them.

UpperAlphabet == "ABCDEFGHIJKLMNOPQRSTUVWXYZ"
LowerAlphabet == "abcdefghijklmnopqrstuvwxyz"

CharAt(s, i) == SubSeq(s, i, i)

IsUpper(c) == \E i \in 1..Len(UpperAlphabet) : CharAt(UpperAlphabet, i) = c
IsLower(c) == \E i \in 1..Len(LowerAlphabet) : CharAt(LowerAlphabet, i) = c

LowerChar(c) ==
    IF IsUpper(c)
    THEN CharAt(LowerAlphabet, CHOOSE i \in 1..Len(UpperAlphabet) : CharAt(UpperAlphabet, i) = c)
    ELSE c

\* String.prototype.toLowerCase
RECURSIVE ToLowerCase(_)
ToLowerCase(s) ==
    IF Len(s) = 0 THEN "" ELSE LowerChar(CharAt(s, 1)) \o ToLowerCase(SubSeq(s, 2, Len(s)))

UpperChar(c) ==
    IF IsLower(c)
    THEN CharAt(UpperAlphabet, CHOOSE i \in 1..Len(LowerAlphabet) : CharAt(LowerAlphabet, i) = c)
    ELSE c

\* String.prototype.toUpperCase
RECURSIVE ToUpperCase(_)
ToUpperCase(s) ==
    IF Len(s) = 0 THEN "" ELSE UpperChar(CharAt(s, 1)) \o ToUpperCase(SubSeq(s, 2, Len(s)))

\* String.prototype.trim, for blanks
RECURSIVE Trim(_)
Trim(s) ==
    IF Len(s) = 0 THEN ""
    ELSE IF CharAt(s, 1) = " " THEN Trim(SubSeq(s, 2, Len(s)))
    ELSE IF CharAt(s, Len(s)) = " " THEN Trim(SubSeq(s, 1, Len(s) - 1))
    ELSE s

\* String.prototype.includes
Includes(hay, needle) ==
    \E i \in 1..(Len(hay) - Len(needle) + 1) : SubSeq(hay, i, i + Len(needle) - 1) = needle

\* Array.prototype.includes
Contains(seq, x) == \E i \in 1..Len(seq) : seq[i] = x

\* Array.prototype.join
RECURSIVE Join(_, _)
Join(seq, sep) ==
    IF Len(seq) = 0 THEN ""
    ELSE IF Len(seq) = 1 THEN seq[1]
    ELSE seq[1] \o sep \o Join(Tail(seq), sep)

\* [...new Set(seq)]: the first occurrence of each element, in order
RECURSIVE Unique(_)
Unique(seq) ==
    IF Len(seq) = 0 THEN <<>>
    ELSE LET front == Unique(SubSeq(seq, 1, Len(seq) - 1))
             last  == seq[Len(seq)]
         IN  IF Contains(front, last) THEN front ELSE Append(front, last)

\* the end of the run of lower-case letters that starts at position i
RECURSIVE LowerRunEnd(_, _)
LowerRunEnd(s, i) ==
    IF i + 1 <= Len(s) /\ IsLower(CharAt(s, i + 1)) THEN LowerRunEnd(s, i + 1) ELSE i

\* s.match(/[A-Z][a-z]+/g) || []
RECURSIVE CapitalizedRuns(_, _)
CapitalizedRuns(s, i) ==
    IF i > Len(s) THEN <<>>
    ELSE IF IsUpper(CharAt(s, i)) /\ i + 1 <= Len(s) /\ IsLower(CharAt(s, i + 1))
         THEN LET j == LowerRunEnd(s, i + 1)
              IN  <<SubSeq(s, i, j)>> \o CapitalizedRuns(s, j + 1)
         ELSE CapitalizedRuns(s, i + 1)

\* s.split(sep) for a separator of one character
RECURSIVE SplitFrom(_, _, _, _)
SplitFrom(s, sep, i, word) ==
    IF i > Len(s) THEN <<word>>
    ELSE IF CharAt(s, i) = sep THEN <<word>> \o SplitFrom(s, sep, i + 1, "")
    ELSE SplitFrom(s, sep, i + 1, word \o CharAt(s, i))

Split(s, sep) == SplitFrom(s, sep, 1, "")

\* /^[a-zA-Z]+$/.test(w)
IsAlphabetic(w) ==
    Len(w) > 0 /\ \A i \in 1..Len(w) : IsUpper(CharAt(w, i)) \/ IsLower(CharAt(w, i))

\* --------------------------------------------------------- storage service
\* One POST to the Apps Script url.  A task that awaits one is parked until
\* the fetch rejects (st = "rejected"), the body fails to parse as JSON
\* (st = "badbody") or the JSON answer arrives (st = "json", in data).

NoReq == [action |-> "", kw |-> <<>>, st |-> "none", data |-> EmptyObj]

Pending(action, kw) == [action |-> action, kw |-> kw, st |-> "pending", data |-> EmptyObj]

BrentFact == [Entity |-> "Brent", Fact |-> "Brent is tall"]
CodyFact  == [Entity |-> "Cody", Fact |-> "Cody is tall"]

\* an answer naming Brent and MaxDiscovered - 1 further entities
CrowdFacts ==
    <<BrentFact>> \o [i \in 1..(MaxDiscovered - 1) |->
                        [Entity |-> "E" \o ToString(i), Fact |-> "is tall"]]

GymFile  == [name |-> "Brent gym", description |-> "Solo scene"]
PoolFile == [name |-> "Brent pool"]

\* the JSON answers of the storage service, per action
StoreAnswers(action) ==
    CASE action = "retrieve_director_memory" ->
            {[found |-> FALSE], [error |-> "Exception"],
             [found |-> TRUE, relevant_memories |-> <<>>],
             [found |-> TRUE, relevant_memories |-> <<BrentFact>>],
             [found |-> TRUE, relevant_memories |-> <<BrentFact, CodyFact, CodyFact>>],
             [found |-> TRUE, relevant_memories |-> CrowdFacts]}
      [] action = "director_search" ->
            {[found |-> FALSE, files |-> <<>>, debug_query |-> "q"],
             [found |-> FALSE, files |-> <<GymFile>>, debug_query |-> "q"],
             [found |-> TRUE, files |-> <<GymFile>>, debug_query |-> "q"],
             [found |-> TRUE, files |-> <<GymFile, PoolFile>>, debug_query |-> "q"],
             [error |-> "Exception"]}
      [] action = "retrieve" ->
            {[found |-> FALSE], [error |-> "Exception"],
             [found |-> TRUE, relevant_memories |-> <<"Arvin likes tea">>],
             [found |-> TRUE, relevant_memories |-> <<"Arvin likes tea", "Arvin went to zoo">>]}
      [] OTHER -> {[status |-> "success"]}

\* the fetch rejects: the storage service is unreachable
StoreUnreachable(t) ==
    /\ ThreadFree
    /\ sreq[t].st = "pending"
    /\ sreq' = [sreq EXCEPT ![t].st = "rejected"]
    /\ UNCHANGED <<eng, turnVars, windowVars, persistVars>>

\* req.json() rejects: the answer is not JSON (an error page)
StoreBadBody(t) ==
    /\ ThreadFree
    /\ sreq[t].st = "pending"
    /\ sreq' = [sreq EXCEPT ![t].st = "badbody"]
    /\ UNCHANGED <<eng, turnVars, windowVars, persistVars>>

\* the JSON answer arrives
StoreAnswer(t) ==
    /\ ThreadFree
    /\ sreq[t].st = "pending"
    /\ \E data \in StoreAnswers(sreq[t].action) :
          sreq' = [sreq EXCEPT ![t].st = "json", ![t].data = data]
    /\ UNCHANGED <<eng, turnVars, windowVars, persistVars>>

\* ------------------------------------------------------- processMemoryChat
\* What a stretch of the turn's code, run from one await to the next, ends
\* with: an engine call it awaits, a storage request it awaits, the reply, or
\* a rejection (an exception no try block of the function catches).  fire
\* lists the storage requests it sent without awaiting them.

NoReply == EmptyObj

Request(action, kw) == [action |-> action, kw |-> kw]

CallStep(label, p, l, fire) ==
    [do |-> "call", label |-> label, action |-> "", kw |-> <<>>, pc |-> p,
     reply |-> NoReply, loc |-> l, fire |-> fire, spawn |-> FALSE,
     graph |-> <<>>, mood |-> <<>>]

StoreStep(action, kw, p, l, fire) ==
    [do |-> "store", label |-> "", action |-> action, kw |-> kw, pc |-> p,
     reply |-> NoReply, loc |-> l, fire |-> fire, spawn |-> FALSE,
     graph |-> <<>>, mood |-> <<>>]

ReplyStep(rep, l, fire) ==
    [do |-> "reply", label |-> "", action |-> "", kw |-> <<>>, pc |-> "idle",
     reply |-> rep, loc |-> l, fire |-> fire, spawn |-> FALSE,
     graph |-> <<>>, mood |-> <<>>]

RejectStep(l) ==
    [do |-> "reject", label |-> "", action |-> "", kw |-> <<>>, pc |-> "idle",
     reply |-> NoReply, loc |-> l, fire |-> <<>>, spawn |-> FALSE,
     graph |-> <<>>, mood |-> <<>>]

\* ---- Step 5: the detached persistence task
\* An async function called without await: it runs to its first await inside
\* the turn's last stretch of code, and from then on as a task of its own.

\* window.lastRetrievedMemories.length > 50
DedupThreshold == 50

\* the fields of an entry sent with store_atomic, the gates the entry passed
\* and the cache value that was tested for it
WriteOf(entry, ctx) ==
    [fact |-> entry.fact, entities |-> entry.entities, topics |-> entry.topics,
     importance |-> entry.importance, gates |-> entry.gates, ctx |-> ctx]

PCallStep(entries, i, ctx) == [do |-> "call", entries |-> entries, idx |-> i, ctx |-> ctx]
PWriteStep(entries, i, ctx) == [do |-> "store", entries |-> entries, idx |-> i, ctx |-> ctx]
PDoneStep(entries) == [do |-> "done", entries |-> entries, idx |-> 0, ctx |-> ""]

\* the for loop from entry i: entries without a fact are skipped; the others
\* go to DedupRefine when the cache is longer than the threshold, else
\* straight to the write
RECURSIVE PersistLoop(_, _, _)
PersistLoop(entries, i, ctx) ==
    IF i > Len(entries) THEN PDoneStep(entries)
    ELSE IF ~TruthyStr(entries[i], "fact") \/ entries[i].fact = "null"
    THEN PersistLoop(entries, i + 1, ctx)
    ELSE IF ctx # "" /\ Len(ctx) > DedupThreshold
    THEN PCallStep(entries, i, ctx)
    ELSE PWriteStep(entries, i, ctx)

PersistEngine(px) == IF px.do = "call" THEN Invoked("DedupRefine") ELSE IdleEngine

PersistRequest(px) == IF px.do = "store" THEN Pending("store_atomic", <<>>) ELSE NoReq

\* the persistence task takes the step px, having dispatched the writes sent;
\* own is the cache as it stood when the task was started
PersistVarsAfter(px, sent, own) ==
    /\ ppc' = CASE px.do = "call"  -> "p_dedup"
                [] px.do = "store" -> "p_store"
                [] OTHER           -> "idle"
    /\ ploc' = [entries |-> px.entries, idx |-> px.idx, ctx |-> px.ctx, own |-> own]
    /\ writes' = IF px.do = "store"
                 THEN Append(sent, WriteOf(px.entries[px.idx], px.ctx)) ELSE sent

\* the turn task takes the step nx; before it the turn had made the engine
\* calls made and sent the storage requests sent.  A step that spawns the
\* persistence task runs that task to its first await.  The record of the
\* ended persistence task (ploc, writes) is dropped when a turn begins
\* (made is empty only then).
ApplyOn(nx, made, sent) ==
    LET px == PersistLoop(nx.loc.entries, 1, cache)
    IN  /\ eng' = [t \in Tasks |->
                      IF t = "turn"
                      THEN (IF nx.do = "call" THEN Invoked(nx.label) ELSE IdleEngine)
                      ELSE IF nx.spawn THEN PersistEngine(px) ELSE eng[t]]
        /\ sreq' = [t \in Tasks |->
                      IF t = "turn"
                      THEN (IF nx.do = "store" THEN Pending(nx.action, nx.kw) ELSE NoReq)
                      ELSE IF nx.spawn THEN PersistRequest(px) ELSE sreq[t]]
        /\ IF nx.spawn THEN PersistVarsAfter(px, <<>>, cache)
           ELSE IF made = <<>> /\ ppc = "idle"
           THEN ppc' = ppc /\ ploc' = EmptyObj /\ writes' = <<>>
           ELSE UNCHANGED persistVars
        /\ pc' = nx.pc
        /\ loc' = nx.loc
        /\ calls' = IF nx.do = "call" THEN Append(made, nx.label) ELSE made
        /\ storeReqs' = sent \o nx.fire \o
                        (IF nx.do = "store" THEN <<Request(nx.action, nx.kw)>> ELSE <<>>)
        /\ outcome' = CASE nx.do = "reply"  -> "replied"
                        [] nx.do = "reject" -> "rejected"
                        [] OTHER            -> "running"
        /\ reply' = nx.reply
        /\ graphs' = IF made = <<>> THEN nx.graph ELSE graphs \o nx.graph
        /\ currentMood' = IF nx.mood = <<>> THEN currentMood ELSE nx.mood[1]

Apply(nx) == ApplyOn(nx, calls, storeReqs)

\* the engine call the turn awaited has returned
Returned(p) == pc = p /\ eng["turn"].epc = "returned"

\* the storage request the turn awaited has settled
Settled(p) == pc = p /\ sreq["turn"].st \in {"rejected", "badbody", "json"}

\* the awaited fetch or json() threw
Threw(r) == r.st \in {"rejected", "badbody"}

Get(o, f, default) == IF Has(o, f) THEN o[f] ELSE default

\* o.f is true
IsTrue(o, f) == Has(o, f) /\ o[f] = TRUE

\* { choices: [{ message: { content: JSON.stringify(content) } }] }
Msg(content) == [content |-> content]

\* res.found && res.relevant_memories.length > 0
FoundMemories(res) == IsTrue(res, "found") /\ Len(res.relevant_memories) > 0

\* ---- Director mode: CHAT

NeedSpecifics ==
    Msg([response |-> "I need more specific names or traits to search the archive.",
         mood |-> "CRYPTIC"])

NoRecords(r) ==
    Msg([response |-> "I searched the archives for "
                       \o Join(r.positive_constraints, ", ")
                       \o " but found no records.",
         mood |-> "SAD"])

\* the Fact of the first memory of entity e, or ""
FactOf(mems, e) ==
    LET hits == SelectSeq(mems, LAMBDA m : Has(m, "Entity") /\ m.Entity = e)
    IN  IF Len(hits) > 0 /\ TruthyStr(hits[1], "Fact") THEN hits[1].Fact ELSE ""

\* the score of the drill-down sort: some constraint occurs in the entity's fact
TraitScore(mems, constraints, e) ==
    IF \E i \in 1..Len(constraints) :
          Includes(ToLowerCase(FactOf(mems, e)), ToLowerCase(constraints[i]))
    THEN 1 ELSE 0

\* drillDownTargets: the discovered entities that are no positive constraint,
\* those whose fact matches a constraint first, cut to 15
DrillDownLimit == 15

\* drillDownTargets without slice(0, 15)
DrillDownTargetsUncut(mems, constraints) ==
    LET named      == SelectSeq(mems, LAMBDA m : TruthyStr(m, "Entity"))
        discovered == Unique([i \in 1..Len(named) |-> named[i].Entity])
        fresh      == SelectSeq(discovered, LAMBDA e : ~Contains(constraints, e))
    IN  SelectSeq(fresh, LAMBDA e : TraitScore(mems, constraints, e) = 1)
            \o SelectSeq(fresh, LAMBDA e : TraitScore(mems, constraints, e) = 0)

DrillDownTargets(mems, constraints) ==
    LET named      == SelectSeq(mems, LAMBDA m : TruthyStr(m, "Entity"))
        discovered == Unique([i \in 1..Len(named) |-> named[i].Entity])
        fresh      == SelectSeq(discovered, LAMBDA e : ~Contains(constraints, e))
        sorted     == SelectSeq(fresh, LAMBDA e : TraitScore(mems, constraints, e) = 1)
                      \o SelectSeq(fresh, LAMBDA e : TraitScore(mems, constraints, e) = 0)
    IN  SubSeq(sorted, 1, IF Len(sorted) < DrillDownLimit THEN Len(sorted) ELSE DrillDownLimit)

\* allMemories after the drill-down: its facts not already held are appended
RECURSIVE MergeMemories(_, _)
MergeMemories(all, more) ==
    IF Len(more) = 0 THEN all
    ELSE LET existingIds == {all[i].Fact : i \in 1..Len(all)}
         IN  MergeMemories(all, SubSeq(more, 1, Len(more) - 1))
             \o (IF more[Len(more)].Fact \in existingIds THEN <<>> ELSE <<more[Len(more)]>>)

\* the primary retrieval of CHAT has settled
ChatContext(r, res, l) ==
    IF Threw(res) \/ (IsTrue(res.data, "found") /\ ~Has(res.data, "relevant_memories"))
    THEN ReplyStep(NeedSpecifics, l, <<>>)
    ELSE IF FoundMemories(res.data)
    THEN LET mems    == res.data.relevant_memories
             targets == DrillDownTargets(mems, r.positive_constraints)
             l2      == With(l, "allMemories", mems)
         IN  IF Len(targets) > 0
             THEN StoreStep("retrieve_director_memory", targets, "d_chat_drill", l2, <<>>)
             ELSE CallStep("DirectorFilter", "d_chat_filter", l2, <<>>)
    ELSE ReplyStep(NoRecords(r), l, <<>>)

\* the drill-down retrieval of CHAT has settled
ChatDrill(res, l) ==
    IF Threw(res) \/ (IsTrue(res.data, "found") /\ ~Has(res.data, "relevant_memories"))
    THEN ReplyStep(NeedSpecifics, l, <<>>)
    ELSE IF FoundMemories(res.data)
    THEN CallStep("DirectorFilter", "d_chat_filter",
                  With(l, "allMemories",
                       MergeMemories(l.allMemories, res.data.relevant_memories)), <<>>)
    ELSE CallStep("DirectorFilter", "d_chat_filter", l, <<>>)

\* const validMatches = filterCheck.parsed.matches || []
ChatFiltered(parsed, l) ==
    CallStep("DirectorContextChat", "d_chat_answer",
             With(l, "validMatches", Get(parsed, "matches", <<>>)), <<>>)

\* the reply of CHAT, with the SHOW_DECKS directive when there are matches
ChatAnswer(parsed, l) ==
    LET content == With(IF Has(parsed, "response")
                        THEN [response |-> parsed.response] ELSE EmptyObj,
                        "mood", "CRYPTIC")
    IN  ReplyStep(IF Len(l.validMatches) > 0
                  THEN [directorAction |-> "SHOW_DECKS", deckKeywords |-> l.validMatches,
                        content |-> content]
                  ELSE Msg(content), l, <<>>)

\* ---- Director mode: STORE

\* lookupKeys: the entity name, the positive constraints, else the capitalized
\* words of the fact; deduplicated, keys of one character dropped
LookupKeys(r) ==
    LET named == IF TruthyStr(r, "entity_name") THEN <<r.entity_name>> ELSE <<>>
        more  == IF Has(r, "positive_constraints")
                 THEN named \o r.positive_constraints ELSE named
        keys  == IF Len(more) = 0 /\ TruthyStr(r, "fact_to_store")
                 THEN CapitalizedRuns(r.fact_to_store, 1) ELSE more
    IN  SelectSeq(Unique(keys), LAMBDA k : k # "" /\ Len(k) > 1)

AlreadyRecorded ==
    Msg([response |-> "I already have that recorded in the archives.",
         mood |-> "NEUTRAL"])

OverwriteWarning(warning) ==
    Msg([response |-> warning \o " Shall I overwrite the old data?",
         mood |-> "QUESTION"])

\* { response: aiRes.response || "Database Updated." }
StoreConfirmation(r) ==
    Msg([response |-> IF TruthyStr(r, "response") THEN r.response ELSE "Database Updated."])

\* StoreFinish with the contradiction tested before the duplicate
StoreFinishWarnFirst(r, isDuplicate, isContradiction, warning, l) ==
    IF isContradiction THEN ReplyStep(OverwriteWarning(warning), l, <<>>)
    ELSE IF isDuplicate THEN ReplyStep(AlreadyRecorded, l, <<>>)
    ELSE ReplyStep(StoreConfirmation(r), l, <<Request("store_director_fact", <<>>)>>)

\* StoreFinish with the write dispatched before the verdict is looked at
StoreFinishWritesFirst(r, isDuplicate, isContradiction, warning, l) ==
    IF isDuplicate
    THEN ReplyStep(AlreadyRecorded, l, <<Request("store_director_fact", <<>>)>>)
    ELSE IF isContradiction
    THEN ReplyStep(OverwriteWarning(warning), l, <<Request("store_director_fact", <<>>)>>)
    ELSE ReplyStep(StoreConfirmation(r), l, <<Request("store_director_fact", <<>>)>>)

\* after the check: the duplicate reply, the warning, or the write and its
\* confirmation
StoreFinish(r, isDuplicate, isContradiction, warning, l) ==
    IF isDuplicate THEN ReplyStep(AlreadyRecorded, l, <<>>)
    ELSE IF isContradiction THEN ReplyStep(OverwriteWarning(warning), l, <<>>)
    ELSE ReplyStep(StoreConfirmation(r), l, <<Request("store_director_fact", <<>>)>>)

\* the retrieval of the prior facts has settled
StoreChecked(r, res, l) ==
    IF Threw(res) \/ (IsTrue(res.data, "found") /\ ~Has(res.data, "relevant_memories"))
    THEN StoreFinish(r, FALSE, FALSE, "", l)
    ELSE IF FoundMemories(res.data)
    THEN CallStep("DirectorDedup", "d_store_dedup",
                  With(l, "existing", res.data.relevant_memories), <<>>)
    ELSE StoreFinish(r, FALSE, FALSE, "", l)

\* the combined duplicate and contradiction verdict
StoreVerdict(r, parsed, l) ==
    StoreFinish(r, IsTrue(parsed, "is_duplicate"), IsTrue(parsed, "is_contradiction"),
                Get(parsed, "warning_message", "undefined"),
                With(l, "dedupCheck", parsed))

\* ---- Director mode: SEARCH

\* the director_search request
SearchExecute(l) ==
    StoreStep("director_search", l.finalKeywords, "d_search_exec", l, <<>>)

\* the identity retrieval has settled (no try block encloses it)
SearchIdentity(res, l) ==
    IF Threw(res) \/ (IsTrue(res.data, "found") /\ ~Has(res.data, "relevant_memories"))
    THEN RejectStep(l)
    ELSE IF FoundMemories(res.data)
    THEN CallStep("DirectorAmbiguity", "d_search_ambiguity", l, <<>>)
    ELSE SearchExecute(l)

\* the ambiguity verdict without the early return for AMBIGUOUS
SearchResolvedSearchesAnyway(parsed, l0) ==
    LET l == With(l0, "ambiguityCheck", parsed)
    IN  IF Get(parsed, "status", "") = "RESOLVED"
        THEN IF ~Has(parsed, "resolved_names") THEN RejectStep(l)
             ELSE IF Len(parsed.resolved_names) > 0
             THEN SearchExecute(With(l, "finalKeywords", parsed.resolved_names))
             ELSE SearchExecute(l)
        ELSE SearchExecute(l)

\* the ambiguity verdict
SearchResolved(parsed, l0) ==
    LET status == Get(parsed, "status", "")
        l      == With(l0, "ambiguityCheck", parsed)
    IN  IF status = "AMBIGUOUS"
        THEN ReplyStep(Msg(With(IF Has(parsed, "clarification_question")
                                THEN [response |-> parsed.clarification_question]
                                ELSE EmptyObj, "mood", "QUESTION")), l, <<>>)
        ELSE IF status = "RESOLVED"
        THEN IF ~Has(parsed, "resolved_names") THEN RejectStep(l)
             ELSE IF Len(parsed.resolved_names) > 0
             THEN SearchExecute(With(l, "finalKeywords", parsed.resolved_names))
             ELSE SearchExecute(l)
        ELSE SearchExecute(l)

\* a file none of whose name and description contains an excluded term
Allowed(f, excludeKeywords) ==
    LET meta == ToLowerCase(f.name \o " " \o Get(f, "description", ""))
    IN  ~\E i \in 1..Len(excludeKeywords) : Includes(meta, ToLowerCase(excludeKeywords[i]))

\* ExcludeFilter without the downgrade to not found
ExcludeFilterKeepsFound(searchRes, excludeKeywords) ==
    IF IsTrue(searchRes, "found") /\ Len(excludeKeywords) > 0
    THEN [searchRes EXCEPT !.files = SelectSeq(@, LAMBDA f : Allowed(f, excludeKeywords))]
    ELSE searchRes

\* client-side enforcement of the negative constraints
ExcludeFilter(searchRes, excludeKeywords) ==
    IF IsTrue(searchRes, "found") /\ Len(excludeKeywords) > 0
    THEN LET kept == SelectSeq(searchRes.files, LAMBDA f : Allowed(f, excludeKeywords))
         IN  [searchRes EXCEPT !.files = kept,
                               !.found = IF Len(kept) = 0 /\ Len(searchRes.files) > 0
                                         THEN FALSE ELSE @]
    ELSE searchRes

CooperativeFallback(finalKeywords) ==
    [directorAction |-> "SHOW_DECKS", deckKeywords |-> finalKeywords, files |-> <<>>,
     content |-> [response |-> "I couldn't find a single scene with BOTH "
                               \o Join(finalKeywords, " and ")
                               \o ". However, I can likely access their individual footage. Which one should I prioritize?",
                  mood |-> "QUESTION"]]

RECURSIVE Copy(_, _, _)
\* the object to with the members of from named in fields, where defined
Copy(to, from, fields) ==
    IF fields = {} THEN to
    ELSE LET f == CHOOSE x \in fields : TRUE
         IN  Copy(IF Has(from, f) THEN With(to, f, from[f]) ELSE to, from, fields \ {f})

SearchReply(r, searchRes) ==
    Copy([directorAction |-> "PLAY_MEDIA",
          content |-> [response |-> IF IsTrue(searchRes, "found")
                                    THEN (IF TruthyStr(r, "response") THEN r.response
                                          ELSE "Archive accessed.")
                                    ELSE "No matching footage found.",
                       mood |-> IF IsTrue(searchRes, "found") THEN "CRYPTIC" ELSE "SAD"]],
         searchRes, {"files", "debug_query"})

\* SearchDone with the cooperative fallback for one keyword too
SearchDoneFallbackOnOne(r, res, l) ==
    IF Threw(res) \/ (IsTrue(res.data, "found") /\ Len(l.excludeKeywords) > 0
                      /\ ~Has(res.data, "files"))
    THEN RejectStep(l)
    ELSE LET searchRes == ExcludeFilter(res.data, l.excludeKeywords)
             l2        == With(l, "searchRes", res.data)
         IN  IF ~IsTrue(searchRes, "found") /\ Len(l.finalKeywords) >= 1
             THEN ReplyStep(CooperativeFallback(l.finalKeywords), l2, <<>>)
             ELSE ReplyStep(SearchReply(r, searchRes), l2, <<>>)

\* the search has settled (no try block encloses it); searchRes is kept as the
\* storage service sent it
SearchDone(r, res, l) ==
    IF Threw(res) \/ (IsTrue(res.data, "found") /\ Len(l.excludeKeywords) > 0
                      /\ ~Has(res.data, "files"))
    THEN RejectStep(l)
    ELSE LET searchRes == ExcludeFilter(res.data, l.excludeKeywords)
             l2        == With(l, "searchRes", res.data)
         IN  IF ~IsTrue(searchRes, "found") /\ Len(l.finalKeywords) > 1
             THEN ReplyStep(CooperativeFallback(l.finalKeywords), l2, <<>>)
             ELSE ReplyStep(SearchReply(r, searchRes), l2, <<>>)

\* ---- Director mode: the intent routing

\* { response: aiRes.response, mood: "CRYPTIC" }
FallThrough(r) ==
    Msg(With(IF Has(r, "response") THEN [response |-> r.response] ELSE EmptyObj,
             "mood", "CRYPTIC"))

\* the routing with CHAT retrieving for an empty list of positive constraints
DirectorRouteEmptyConstraints(r, url, l) ==
    LET intent == Get(r, "intent", "")
    IN  IF intent = "CHAT"
        THEN IF Has(r, "positive_constraints") /\ url
             THEN StoreStep("retrieve_director_memory", r.positive_constraints,
                            "d_chat_ctx", l, <<>>)
             ELSE ReplyStep(NeedSpecifics, l, <<>>)
        ELSE IF intent = "STORE" /\ url
        THEN IF Len(LookupKeys(r)) > 0
             THEN StoreStep("retrieve_director_memory", LookupKeys(r),
                            "d_store_check", l, <<>>)
             ELSE StoreFinish(r, FALSE, FALSE, "", l)
        ELSE IF intent = "SEARCH" /\ url
        THEN LET l2 == With(With(l, "finalKeywords", Get(r, "positive_constraints", <<>>)),
                            "excludeKeywords", Get(r, "negative_constraints", <<>>))
             IN  IF Len(l2.finalKeywords) > 0
                 THEN StoreStep("retrieve_director_memory", l2.finalKeywords,
                                "d_search_identity", l2, <<>>)
                 ELSE SearchExecute(l2)
        ELSE ReplyStep(FallThrough(r), l, <<>>)

\* the routing without the return that closes the Director branch
DirectorRouteFallsIntoStandard(r, url, l) ==
    LET intent == Get(r, "intent", "")
    IN  IF intent = "CHAT"
        THEN IF Has(r, "positive_constraints") /\ Len(r.positive_constraints) > 0 /\ url
             THEN StoreStep("retrieve_director_memory", r.positive_constraints,
                            "d_chat_ctx", l, <<>>)
             ELSE ReplyStep(NeedSpecifics, l, <<>>)
        ELSE IF intent = "STORE" /\ url
        THEN IF Len(LookupKeys(r)) > 0
             THEN StoreStep("retrieve_director_memory", LookupKeys(r),
                            "d_store_check", l, <<>>)
             ELSE StoreFinish(r, FALSE, FALSE, "", l)
        ELSE IF intent = "SEARCH" /\ url
        THEN LET l2 == With(With(l, "finalKeywords", Get(r, "positive_constraints", <<>>)),
                            "excludeKeywords", Get(r, "negative_constraints", <<>>))
             IN  IF Len(l2.finalKeywords) > 0
                 THEN StoreStep("retrieve_director_memory", l2.finalKeywords,
                                "d_search_identity", l2, <<>>)
                 ELSE SearchExecute(l2)
        ELSE CallStep("Hybrid Analysis", "s_analysis", l, <<>>)

\* if / else if over aiRes.intent, and the fall-through reply
DirectorRoute(r, url, l) ==
    LET intent == Get(r, "intent", "")
    IN  IF intent = "CHAT"
        THEN IF Has(r, "positive_constraints") /\ Len(r.positive_constraints) > 0 /\ url
             THEN StoreStep("retrieve_director_memory", r.positive_constraints,
                            "d_chat_ctx", l, <<>>)
             ELSE ReplyStep(NeedSpecifics, l, <<>>)
        ELSE IF intent = "STORE" /\ url
        THEN IF Len(LookupKeys(r)) > 0
             THEN StoreStep("retrieve_director_memory", LookupKeys(r),
                            "d_store_check", l, <<>>)
             ELSE StoreFinish(r, FALSE, FALSE, "", l)
        ELSE IF intent = "SEARCH" /\ url
        THEN LET l2 == With(With(l, "finalKeywords", Get(r, "positive_constraints", <<>>)),
                            "excludeKeywords", Get(r, "negative_constraints", <<>>))
             IN  IF Len(l2.finalKeywords) > 0
                 THEN StoreStep("retrieve_director_memory", l2.finalKeywords,
                                "d_search_identity", l2, <<>>)
                 ELSE SearchExecute(l2)
        ELSE ReplyStep(FallThrough(r), l, <<>>)

\* ---- the turn's actions

\* processMemoryChat is called: the user input is logged, then the first
\* engine call of the mode
StartTurn ==
    /\ ThreadFree
    /\ pc = "idle"
    /\ ppc = "idle"
    /\ \E d \in BOOLEAN, q \in BOOLEAN, u \in BOOLEAN :
          /\ inp' = [director |-> d, question |-> q, url |-> u]
          /\ ApplyOn(CallStep(IF d THEN "DirectorAI" ELSE "Hybrid Analysis",
                              IF d THEN "d_ai" ELSE "s_analysis", EmptyObj,
                              IF u THEN <<Request("log_chat", <<>>)>> ELSE <<>>),
                     <<>>, <<>>)
    /\ aiRes' = EmptyObj
    /\ UNCHANGED windowVars

\* processMemoryChat is called in Standard mode while the persistence task of
\* the previous turn is still running
StartOverlappingTurn ==
    /\ ThreadFree
    /\ pc = "idle"
    /\ ppc # "idle"
    /\ inp' = [director |-> FALSE, question |-> FALSE, url |-> TRUE]
    /\ ApplyOn(CallStep("Hybrid Analysis", "s_analysis", EmptyObj,
                        <<Request("log_chat", <<>>)>>), <<>>, <<>>)
    /\ aiRes' = EmptyObj
    /\ UNCHANGED windowVars

DirectorClassified ==
    /\ Returned("d_ai")
    /\ aiRes' = eng["turn"].result.parsed
    /\ Apply(DirectorRoute(eng["turn"].result.parsed, inp.url, loc))
    /\ UNCHANGED <<inp, windowVars, ppc, ploc, writes>>

DirectorChatContext ==
    /\ Settled("d_chat_ctx")
    /\ Apply(ChatContext(aiRes, sreq["turn"], loc))
    /\ UNCHANGED <<inp, aiRes, windowVars>>

DirectorChatDrill ==
    /\ Settled("d_chat_drill")
    /\ Apply(ChatDrill(sreq["turn"], loc))
    /\ UNCHANGED <<inp, aiRes, windowVars>>

DirectorChatFiltered ==
    /\ Returned("d_chat_filter")
    /\ Apply(ChatFiltered(eng["turn"].result.parsed, loc))
    /\ UNCHANGED <<inp, aiRes, windowVars>>

DirectorChatAnswer ==
    /\ Returned("d_chat_answer")
    /\ Apply(ChatAnswer(eng["turn"].result.parsed, loc))
    /\ UNCHANGED <<inp, aiRes, windowVars>>

DirectorStoreChecked ==
    /\ Settled("d_store_check")
    /\ Apply(StoreChecked(aiRes, sreq["turn"], loc))
    /\ UNCHANGED <<inp, aiRes, windowVars>>

DirectorStoreVerdict ==
    /\ Returned("d_store_dedup")
    /\ Apply(StoreVerdict(aiRes, eng["turn"].result.parsed, loc))
    /\ UNCHANGED <<inp, aiRes, windowVars>>

DirectorSearchIdentity ==
    /\ Settled("d_search_identity")
    /\ Apply(SearchIdentity(sreq["turn"], loc))
    /\ UNCHANGED <<inp, aiRes, windowVars>>

DirectorSearchResolved ==
    /\ Returned("d_search_ambiguity")
    /\ Apply(SearchResolved(eng["turn"].result.parsed, loc))
    /\ UNCHANGED <<inp, aiRes, windowVars>>

DirectorSearchDone ==
    /\ Settled("d_search_exec")
    /\ Apply(SearchDone(aiRes, sreq["turn"], loc))
    /\ UNCHANGED <<inp, aiRes, windowVars>>

\* ---- Standard mode

\* entry.importance < 4
TimekeeperThreshold == 4

\* "=== DATABASE SEARCH RESULTS ===\n", the newline written as "|"
ContextHeader == "=== DATABASE SEARCH RESULTS ===|"

\* the return value, with Step 5's spawn of the persistence task
FinalStep(rep, l, fire, spawn, graph, mood) ==
    [do |-> "reply", label |-> "", action |-> "", kw |-> <<>>, pc |-> "idle",
     reply |-> rep, loc |-> l, fire |-> fire, spawn |-> spawn, graph |-> graph,
     mood |-> mood]

\* Step 4: the Generation call
Generate(l) == CallStep("Generation", "s_generation", l, <<>>)

\* Step 3: retrievedContext = "", then the retrieve request when a url is set.
\* The keywords of the request are not part of the state.
Retrieve(l, url) ==
    IF url
    THEN StoreStep("retrieve", <<>>, "s_retrieve", With(l, "retrievedContext", ""), <<>>)
    ELSE Generate(With(l, "retrievedContext", ""))

\* the threshold test with <= for <
NeedsTimekeeperOffByOne(entry) == ~(entry.importance <= TimekeeperThreshold)

\* if (entry.importance < 4) { validEntries.push(entry); continue; }
NeedsTimekeeper(entry) == ~(entry.importance < TimekeeperThreshold)

\* Step 2, the for loop from entry i with validEntries = valid: entries below
\* the threshold are kept, the first other one goes to the Timekeeper; after
\* the loop analysis.entries = validEntries and Step 3 follows
RECURSIVE TimekeeperLoop(_, _, _, _)
TimekeeperLoop(l, i, valid, url) ==
    IF i > Len(l.entries) THEN Retrieve(With(l, "entries", valid), url)
    ELSE IF ~NeedsTimekeeper(l.entries[i])
    THEN TimekeeperLoop(l, i + 1, Append(valid, l.entries[i]), url)
    ELSE CallStep("Timekeeper", "s_timekeeper",
                  With(With(l, "idx", i), "validEntries", valid), <<>>)

\* Step 1 has returned: analysis = synthResult.parsed.  Each entry starts with
\* no gate passed.
Analysed(parsed, url) ==
    LET es == Get(parsed, "entries", <<>>)
    IN  TimekeeperLoop([entries |-> [i \in 1..Len(es) |-> With(es[i], "gates", <<>>)]],
                       1, <<>>, url)

\* TimeChecked that drops an invalid entry silently and goes on with the loop
TimeCheckedSilentDiscard(parsed, l, url) ==
    IF IsTrue(parsed, "valid")
    THEN LET e    == l.entries[l.idx]
             kept == [e EXCEPT !.fact = IF TruthyStr(parsed, "rewritten_fact")
                                        THEN parsed.rewritten_fact ELSE @,
                               !.gates = Append(@, "Timekeeper")]
         IN  TimekeeperLoop(l, l.idx + 1, Append(l.validEntries, kept), url)
    ELSE TimekeeperLoop(With(l, "timeResult", parsed), l.idx + 1, l.validEntries, url)

\* the Timekeeper verdict on entry idx: kept (its fact rewritten) when valid,
\* else the Interceptor
TimeChecked(parsed, l, url) ==
    IF IsTrue(parsed, "valid")
    THEN LET e    == l.entries[l.idx]
             kept == [e EXCEPT !.fact = IF TruthyStr(parsed, "rewritten_fact")
                                        THEN parsed.rewritten_fact ELSE @,
                               !.gates = Append(@, "Timekeeper")]
         IN  TimekeeperLoop(l, l.idx + 1, Append(l.validEntries, kept), url)
    ELSE CallStep("Interceptor", "s_intercept", With(l, "timeResult", parsed), <<>>)

\* safePayload = { response: intercept.parsed.response, mood: "CURIOUS", roots: [] }
Intercepted(parsed, l) ==
    ReplyStep(Msg(Copy([mood |-> "CURIOUS", roots |-> <<>>], parsed, {"response"})),
              l, <<>>)

\* window.lastRetrievedMemories after the retrieval has settled: written only
\* when memRes.found
RetrievedCache(res, old) ==
    IF ~Threw(res) /\ IsTrue(res.data, "found") /\ Has(res.data, "relevant_memories")
    THEN ContextHeader \o Join(res.data.relevant_memories, "|")
    ELSE old

\* words of the candidate response that name its subject
ResponseStopWords ==
    {"what", "when", "where", "who", "why", "does", "this", "that", "have"}

ResponseKeywords(text) ==
    SelectSeq(Split(text, " "),
              LAMBDA w : Len(w) > 3 /\ IsAlphabetic(w)
                         /\ ToLowerCase(w) \notin ResponseStopWords)

\* sanitizeMood: "NEUTRAL" for a missing mood, else upper case, trimmed
SanitizeMood(o) ==
    IF TruthyStr(o, "mood") THEN Trim(ToUpperCase(o.mood)) ELSE "NEUTRAL"

\* cleanRoots: the mood of every root and of every branch is sanitized, in
\* place; nothing is removed
CleanRoots(roots) ==
    [i \in DOMAIN roots |->
        LET root == With(roots[i], "mood", SanitizeMood(roots[i]))
        IN  IF Has(root, "branches")
            THEN [root EXCEPT !.branches =
                     [j \in DOMAIN @ |-> With(@[j], "mood", SanitizeMood(@[j]))]]
            ELSE root]

\* the Mood Sanitizer's effect on generationResult.parsed; window.updateGraphData
\* is taken to be installed
Sanitized(gen) ==
    IF Has(gen.parsed, "roots")
    THEN [gen EXCEPT !.parsed.roots = CleanRoots(@)]
    ELSE gen

GraphCall(gen) ==
    IF Has(gen.parsed, "roots") THEN <<CleanRoots(gen.parsed.roots)>> ELSE <<>>

\* if (generationResult.parsed.mood) window.currentMood = sanitizeMood(...)
MoodSet(gen) ==
    IF TruthyStr(gen.parsed, "mood") THEN <<SanitizeMood(gen.parsed)>> ELSE <<>>

\* Finish that awaits the persistence task before it returns
FinishAwaitsPersistence(gen, l, url) ==
    IF url /\ Len(l.entries) > 0
    THEN [do |-> "wait", label |-> "", action |-> "", kw |-> <<>>, pc |-> "s_persist",
          reply |-> NoReply, loc |-> l, fire |-> <<Request("log_chat", <<>>)>>,
          spawn |-> TRUE, graph |-> GraphCall(gen), mood |-> MoodSet(gen)]
    ELSE FinalStep(Msg(gen.cleaned), l,
                   IF url THEN <<Request("log_chat", <<>>)>> ELSE <<>>, FALSE,
                   GraphCall(gen), MoodSet(gen))

\* the Mood Sanitizer's graph update, the assistant log, Step 5 and the return
\* of generationResult.cleaned
Finish(gen, l, url) ==
    FinalStep(Msg(gen.cleaned), With(l, "gen", Sanitized(gen)),
              IF url THEN <<Request("log_chat", <<>>)>> ELSE <<>>,
              url /\ Len(l.entries) > 0,
              GraphCall(gen), MoodSet(gen))

\* Generated with the Redundancy Guard run in companion mode too
GeneratedGuardsAnyMode(result, l, question, url) ==
    LET l2  == With(l, "gen", result)
        kws == ResponseKeywords(result.parsed.response)
    IN  IF url /\ TruthyStr(result.parsed, "response") /\ Len(kws) > 0
        THEN StoreStep("retrieve", kws, "s_reflex", l2, <<>>)
        ELSE Finish(result, l2, url)

\* Generation has returned: the Redundancy Guard's reflexive search, or the end
Generated(result, l, question, url) ==
    LET l2  == With(l, "gen", result)
        kws == ResponseKeywords(result.parsed.response)
    IN  IF question /\ url /\ TruthyStr(result.parsed, "response") /\ Len(kws) > 0
        THEN StoreStep("retrieve", kws, "s_reflex", l2, <<>>)
        ELSE Finish(result, l2, url)

\* the reflexive search has settled
Reflexed(res, l, url) ==
    IF ~Threw(res) /\ IsTrue(res.data, "found") /\ Has(res.data, "relevant_memories")
       /\ Len(res.data.relevant_memories) > 0
    THEN CallStep("RedundancyCheck", "s_redundancy", l, <<>>)
    ELSE Finish(l.gen, l, url)

\* the redundancy verdict
RedundancyChecked(parsed, l0, url) ==
    LET l == With(l0, "sanityCheck", parsed)
    IN  IF IsTrue(parsed, "is_redundant")
        THEN CallStep("CorrectionGeneration", "s_correction", l, <<>>)
        ELSE Finish(l.gen, l, url)

\* Corrected without generationResult.cleaned = retryResult.cleaned
CorrectedKeepsCleaned(result, l0, url) ==
    LET l   == With(l0, "retryResult", result)
        gen == [l.gen EXCEPT !.parsed = result.parsed]
    IN  Finish(gen, With(l, "gen", gen), url)

\* Corrected that submits the regenerated response to the guard again
CorrectedChecksAgain(result, l0, url) ==
    LET l   == With(l0, "retryResult", result)
        gen == [l.gen EXCEPT !.parsed = result.parsed, !.cleaned = result.cleaned]
    IN  CallStep("RedundancyCheck", "s_redundancy", With(l, "gen", gen), <<>>)

\* generationResult.parsed = retryResult.parsed; .cleaned = retryResult.cleaned
Corrected(result, l0, url) ==
    LET l   == With(l0, "retryResult", result)
        gen == [l.gen EXCEPT !.parsed = result.parsed, !.cleaned = result.cleaned]
    IN  Finish(gen, With(l, "gen", gen), url)

AnalysisDone ==
    /\ Returned("s_analysis")
    /\ Apply(Analysed(eng["turn"].result.parsed, inp.url))
    /\ UNCHANGED <<inp, aiRes, windowVars>>

TimekeeperDone ==
    /\ Returned("s_timekeeper")
    /\ Apply(TimeChecked(eng["turn"].result.parsed, loc, inp.url))
    /\ UNCHANGED <<inp, aiRes, windowVars>>

InterceptorDone ==
    /\ Returned("s_intercept")
    /\ Apply(Intercepted(eng["turn"].result.parsed, loc))
    /\ UNCHANGED <<inp, aiRes, windowVars>>

\* the retrieval not awaited: Generation starts while the request is pending
RetrievalDoneUnawaited ==
    /\ pc = "s_retrieve" /\ sreq["turn"].st = "pending"
    /\ cache' = cache
    /\ UNCHANGED <<sessionVars, scan>>
    /\ Apply(Generate(loc))
    /\ UNCHANGED <<inp, aiRes>>

RetrievalDone ==
    /\ Settled("s_retrieve")
    /\ cache' = RetrievedCache(sreq["turn"], cache)
    /\ UNCHANGED <<sessionVars, scan>>
    /\ Apply(Generate(With(loc, "retrievedContext",
                           RetrievedCache(sreq["turn"], ""))))
    /\ UNCHANGED <<inp, aiRes>>

GenerationDone ==
    /\ Returned("s_generation")
    /\ Apply(Generated(eng["turn"].result, loc, inp.question, inp.url))
    /\ UNCHANGED <<inp, aiRes, windowVars>>

ReflexiveSearchDone ==
    /\ Settled("s_reflex")
    /\ Apply(Reflexed(sreq["turn"], loc, inp.url))
    /\ UNCHANGED <<inp, aiRes, windowVars>>

RedundancyCheckDone ==
    /\ Returned("s_redundancy")
    /\ Apply(RedundancyChecked(eng["turn"].result.parsed, loc, inp.url))
    /\ UNCHANGED <<inp, aiRes, windowVars>>

CorrectionDone ==
    /\ Returned("s_correction")
    /\ Apply(Corrected(eng["turn"].result, loc, inp.url))
    /\ UNCHANGED <<inp, aiRes, windowVars>>

\* ---- the persistence task's actions

\* PersistChecked without the skip of a duplicate
PersistCheckedWritesDuplicate(parsed, l, ctx) ==
    LET e       == With(l.entries[l.idx], "check", parsed)
        refined == [e EXCEPT
                      !.fact = IF TruthyStr(parsed, "better_fact")
                                  /\ Len(parsed.better_fact) > 5
                               THEN parsed.better_fact ELSE @,
                      !.entities = IF TruthyStr(parsed, "better_entities")
                                      /\ Len(parsed.better_entities) > 2
                                   THEN parsed.better_entities ELSE @,
                      !.gates = Append(@, "DedupRefine")]
    IN  PWriteStep([l.entries EXCEPT ![l.idx] = refined], l.idx, l.ctx)

\* the DedupRefine verdict on entry idx: a duplicate is skipped, any other
\* entry is written, with the refined fact and entities when given.  The
\* verdict is kept with the entry (check).
PersistChecked(parsed, l, ctx) ==
    IF Get(parsed, "status", "") = "DUPLICATE"
    THEN PersistLoop([l.entries EXCEPT ![l.idx] = With(@, "check", parsed)],
                     l.idx + 1, ctx)
    ELSE LET e       == With(l.entries[l.idx], "check", parsed)
             refined == [e EXCEPT
                           !.fact = IF TruthyStr(parsed, "better_fact")
                                       /\ Len(parsed.better_fact) > 5
                                    THEN parsed.better_fact ELSE @,
                           !.entities = IF TruthyStr(parsed, "better_entities")
                                           /\ Len(parsed.better_entities) > 2
                                        THEN parsed.better_entities ELSE @,
                           !.gates = Append(@, "DedupRefine")]
         IN  PWriteStep([l.entries EXCEPT ![l.idx] = refined], l.idx, l.ctx)

\* the persistence task takes the step px
ApplyPersist(px) ==
    /\ eng' = [eng EXCEPT !["persist"] = PersistEngine(px)]
    /\ sreq' = [sreq EXCEPT !["persist"] = PersistRequest(px)]
    /\ PersistVarsAfter(px, writes, ploc.own)

DedupRefineDone ==
    /\ ppc = "p_dedup"
    /\ eng["persist"].epc = "returned"
    /\ ApplyPersist(PersistChecked(eng["persist"].result.parsed, ploc, cache))
    /\ UNCHANGED <<turnVars, windowVars>>

\* await fetch(store_atomic).catch(...): the loop goes on when the fetch
\* settles, whichever way
WriteSettled ==
    /\ ppc = "p_store"
    /\ sreq["persist"].st \in {"rejected", "badbody", "json"}
    /\ ApplyPersist(PersistLoop(ploc.entries, ploc.idx + 1, cache))
    /\ UNCHANGED <<turnVars, windowVars>>

\* ---------------------------------------------- initializeSymbiosisSession
\* The bootstrap shares no variable with a turn: it is followed in SessionSpec,
\* one call in a session.

\* 1000 * 60 * 60
HourMs == 3600000

\* if (hoursDiff > 6)
GapHours == 6

\* the clock when the answer is read
Now == 100 * HourMs

\* an instant as the store writes it, and a timestamp cell no Date parses
Instant(ms) == [ms |-> ms]

Unparseable == [text |-> "n/a"]

\* new Date(timestamp).getTime(): <<ms>>, or <<>> for NaN
GetTime(m) ==
    IF Has(m, "timestamp") /\ Has(m.timestamp, "ms") THEN <<m.timestamp.ms>> ELSE <<>>

Stamps ==
    {Instant(Now - GapHours * HourMs - 1), Instant(Now - GapHours * HourMs),
     Instant(Now - 8 * HourMs - 1800000), Unparseable}

\* rows of the chat sheet: [timestamp, role, content], and a row cut short
Rows ==
    { <<t, r, "hi">> : t \in Stamps, r \in {"user", "assistant", "system"} }
        \cup {<<Instant(Now - 7 * HourMs)>>}

\* bodies the store answers get_recent_chat with
SessionAnswers ==
    { [history |-> h] : h \in SeqsUpTo(Rows, MaxRows) }
        \cup {EmptyObj, [error |-> "Unknown action"]}

\* window.chatHistory before the bootstrap: the page starts a session with an
\* empty history
InitialHistory == <<>>

\* failed: "Session Restore Failed" was logged
IdleBoot == [pc |-> "idle", res |-> EmptyObj, failed |-> FALSE]

\* row => ({ role: row[1], content: row[2], timestamp: row[0] })
MessageOf(row) ==
    LET a == IF Len(row) >= 1 THEN [timestamp |-> row[1]] ELSE EmptyObj
        b == IF Len(row) >= 2 THEN With(a, "role", row[2]) ELSE a
    IN  IF Len(row) >= 3 THEN With(b, "content", row[3]) ELSE b

\* Math.floor(hoursDiff) of the note
SystemNote(hours) ==
    [role |-> "system",
     content |-> "[SYSTEM_NOTE: The user has returned after " \o ToString(hours)
                 \o " hours. Treat this as a new session context, but retain previous memories.]"]

\* Time Gap Logic with the test hoursDiff >= 6
TimeGapInclusive(history) ==
    IF Len(history) > 0 /\ GetTime(history[Len(history)]) # <<>>
       /\ Now - GetTime(history[Len(history)])[1] >= GapHours * HourMs
    THEN Append(history,
                SystemNote((Now - GetTime(history[Len(history)])[1]) \div HourMs))
    ELSE history

\* Time Gap Logic: hoursDiff = (now - lastTime) / (1000 * 60 * 60); NaN > 6 is
\* false
TimeGap(history) ==
    IF Len(history) > 0 /\ GetTime(history[Len(history)]) # <<>>
       /\ Now - GetTime(history[Len(history)])[1] > GapHours * HourMs
    THEN Append(history,
                SystemNote((Now - GetTime(history[Len(history)])[1]) \div HourMs))
    ELSE history

\* the body after the answer is read
Restored(res, history) ==
    IF Has(res, "history")
    THEN TimeGap([i \in DOMAIN res.history |-> MessageOf(res.history[i])])
    ELSE history

\* the call: no request without a storage URL
InitializeSession ==
    /\ boot.pc = "idle"
    /\ \E url \in BOOLEAN :
          boot' = [boot EXCEPT !.pc = IF url THEN "fetch" ELSE "done"]
    /\ UNCHANGED <<eng, sreq, turnVars, cache, chatHistory, scan, persistVars>>

\* fetch rejects: catch (e) logs "Session Restore Failed"
SessionUnreachable ==
    /\ boot.pc = "fetch"
    /\ boot' = [boot EXCEPT !.pc = "done", !.failed = TRUE]
    /\ UNCHANGED <<eng, sreq, turnVars, cache, chatHistory, scan, persistVars>>

\* fetch resolves, whatever the status: req.json() is awaited
SessionResponded ==
    /\ boot.pc = "fetch"
    /\ boot' = [boot EXCEPT !.pc = "body"]
    /\ UNCHANGED <<eng, sreq, turnVars, cache, chatHistory, scan, persistVars>>

\* catch (e) that throws the error again
SessionBadBodyRethrow ==
    /\ boot.pc = "body"
    /\ boot' = [boot EXCEPT !.pc = "threw", !.failed = TRUE]
    /\ UNCHANGED <<eng, sreq, turnVars, cache, chatHistory, scan, persistVars>>

\* req.json() throws: catch (e) logs "Session Restore Failed"
SessionBadBody ==
    /\ boot.pc = "body"
    /\ boot' = [boot EXCEPT !.pc = "done", !.failed = TRUE]
    /\ UNCHANGED <<eng, sreq, turnVars, cache, chatHistory, scan, persistVars>>

\* the body is read
SessionAnswer ==
    /\ boot.pc = "body"
    /\ \E res \in SessionAnswers :
          /\ boot' = [boot EXCEPT !.pc = "done", !.res = res]
          /\ chatHistory' = Restored(res, chatHistory)
    /\ UNCHANGED <<eng, sreq, turnVars, cache, scan, persistVars>>

\* ------------------------------------------ Global Retrieval: deep anchor
\* The anchor reads the history and the user text passed to processMemoryChat
\* and nothing else: it is followed on its own in AnchorSpec.

IsLetter(c) == IsUpper(c) \/ IsLower(c)

\* the end of the run of letters that starts at position i
RECURSIVE LetterRunEnd(_, _)
LetterRunEnd(s, i) ==
    IF i + 1 <= Len(s) /\ IsLetter(CharAt(s, i + 1)) THEN LetterRunEnd(s, i + 1) ELSE i

\* msg.match(/[A-Z][a-zA-Z]+/g) || []
RECURSIVE CapitalizedWords(_, _)
CapitalizedWords(s, i) ==
    IF i > Len(s) THEN <<>>
    ELSE IF IsUpper(CharAt(s, i)) /\ i + 1 <= Len(s) /\ IsLetter(CharAt(s, i + 1))
         THEN LET j == LetterRunEnd(s, i + 1)
              IN  <<SubSeq(s, i, j)>> \o CapitalizedWords(s, j + 1)
         ELSE CapitalizedWords(s, i + 1)

AnchorStopWords ==
    {"Who", "What", "Where", "When", "Why", "How", "I", "No", "Yes", "I'm"}

\* validCaps of one message
ValidCaps(msg) ==
    SelectSeq(CapitalizedWords(msg, 1), LAMBDA w : w \notin AnchorStopWords)

\* for (let i = userMsgs.length - 1; i >= limit; i--) with its break; first
\* is limit + 1, the messages being counted from 1
RECURSIVE AnchorScan(_, _, _)
AnchorScan(userMsgs, i, first) ==
    IF i < first THEN <<>>
    ELSE IF Len(ValidCaps(userMsgs[i].content)) > 0 THEN ValidCaps(userMsgs[i].content)
    ELSE AnchorScan(userMsgs, i - 1, first)

\* the deep anchor with a window of 6 user turns
DeepAnchorWindowOfSix(history, question, userText) ==
    IF Len(history) > 0 /\ (question \/ Len(userText) < 30)
    THEN LET userMsgs == SelectSeq(history, LAMBDA h : h.role = "user")
             limit    == IF Len(userMsgs) - 6 > 0 THEN Len(userMsgs) - 6 ELSE 0
         IN  AnchorScan(userMsgs, Len(userMsgs), limit + 1)
    ELSE <<>>

\* what the deep anchor appends to searchKeys
DeepAnchor(history, question, userText) ==
    IF Len(history) > 0 /\ (question \/ Len(userText) < 30)
    THEN LET userMsgs == SelectSeq(history, LAMBDA h : h.role = "user")
             limit    == IF Len(userMsgs) - 5 > 0 THEN Len(userMsgs) - 5 ELSE 0
         IN  AnchorScan(userMsgs, Len(userMsgs), limit + 1)
    ELSE <<>>

\* messages of a history, and the texts of the turn: a short one and one of
\* 30 characters
HistoryMessages ==
    { [role |-> "user", content |-> c] :
          c \in {"idk", "What now", "I met Jemi at McD", "Zoe called"} }
        \cup {[role |-> "assistant", content |-> "Tell me about Rita"]}

UserTexts == {"idk", "I do not know anything else ok"}

IdleScan == [pc |-> "idle", history |-> <<>>, question |-> FALSE, userText |-> "",
             caps |-> <<>>]

\* one more message in the history the page keeps
HistoryGrows ==
    /\ scan.pc = "idle"
    /\ Len(scan.history) < MaxHistory
    /\ \E m \in HistoryMessages : scan' = [scan EXCEPT !.history = Append(@, m)]
    /\ UNCHANGED <<eng, sreq, turnVars, cache, sessionVars, persistVars>>

\* Step 3 of a turn called with that history
AnchorScanned ==
    /\ scan.pc = "idle"
    /\ \E q \in BOOLEAN, t \in UserTexts :
          scan' = [scan EXCEPT !.pc = "done", !.question = q, !.userText = t,
                               !.caps = DeepAnchor(scan.history, q, t)]
    /\ UNCHANGED <<eng, sreq, turnVars, cache, sessionVars, persistVars>>

\* ------------------------------------------------------------ specification

Init ==
    /\ eng = [t \in Tasks |-> IdleEngine]
    /\ sreq = [t \in Tasks |-> NoReq]
    /\ pc = "idle"
    /\ inp = [director |-> FALSE, question |-> FALSE, url |-> FALSE]
    /\ aiRes = EmptyObj
    /\ loc = EmptyObj
    /\ outcome = "idle"
    /\ reply = NoReply
    /\ calls = <<>>
    /\ storeReqs = <<>>
    /\ graphs = <<>>
    /\ currentMood = ""
    /\ cache = ""
    /\ chatHistory = InitialHistory
    /\ boot = IdleBoot
    /\ scan = IdleScan
    /\ ppc = "idle"
    /\ ploc = EmptyObj
    /\ writes = <<>>

Next ==
    \/ StartTurn
    \/ \E t \in Tasks : FetchTimeout(t)
    \/ \E t \in Tasks : FetchNetworkError(t)
    \/ \E t \in Tasks : FetchResponse(t)
    \/ \E t \in Tasks : BodyMalformed(t)
    \/ \E t \in Tasks : BodyParsed(t)
    \/ \E t \in Tasks : BackoffElapsed(t)
    \/ \E t \in Tasks : StoreUnreachable(t)
    \/ \E t \in Tasks : StoreBadBody(t)
    \/ \E t \in Tasks : StoreAnswer(t)
    \/ DirectorClassified
    \/ DirectorChatContext
    \/ DirectorChatDrill
    \/ DirectorChatFiltered
    \/ DirectorChatAnswer
    \/ DirectorStoreChecked
    \/ DirectorStoreVerdict
    \/ DirectorSearchIdentity
    \/ DirectorSearchResolved
    \/ DirectorSearchDone
    \/ AnalysisDone
    \/ TimekeeperDone
    \/ InterceptorDone
    \/ RetrievalDone
    \/ GenerationDone
    \/ ReflexiveSearchDone
    \/ RedundancyCheckDone
    \/ CorrectionDone
    \/ DedupRefineDone
    \/ WriteSettled

Spec == Init /\ [][Next]_vars

SessionNext ==
    \/ InitializeSession
    \/ SessionUnreachable
    \/ SessionResponded
    \/ SessionBadBody
    \/ SessionAnswer

SessionSpec == Init /\ [][SessionNext]_vars

AnchorNext == HistoryGrows \/ AnchorScanned

AnchorSpec == Init /\ [][AnchorNext]_vars

\* Generation has returned in a turn begun while no persistence task was
\* running
FirstGenerationDone ==
    /\ ppc = "idle" /\ DOMAIN ploc = {}
    /\ GenerationDone

\* Two turns in a row, the second one begun while the persistence task of the
\* first is running.  The persistence task of the second turn is not part of
\* this specification: the second turn is followed up to its Generation call.
\* The retries of a failed request are left to Spec: here an invocation whose
\* request fails is not followed further.
OverlapNext ==
    \/ StartTurn
    \/ StartOverlappingTurn
    \/ \E t \in Tasks : FetchResponse(t)
    \/ \E t \in Tasks : BodyParsed(t)
    \/ \E t \in Tasks : StoreUnreachable(t)
    \/ \E t \in Tasks : StoreAnswer(t)
    \/ AnalysisDone
    \/ TimekeeperDone
    \/ InterceptorDone
    \/ RetrievalDone
    \/ FirstGenerationDone
    \/ DedupRefineDone
    \/ WriteSettled

OverlapSpec == Init /\ [][OverlapNext]_vars

\* The code that resumes after an await runs once the awaited promise has
\* settled, and a timer that is armed fires.  Nothing obliges the inference
\* service or the storage service to answer.
Continue ==
    \/ DirectorClassified \/ DirectorChatContext \/ DirectorChatDrill
    \/ DirectorChatFiltered \/ DirectorChatAnswer \/ DirectorStoreChecked
    \/ DirectorStoreVerdict \/ DirectorSearchIdentity \/ DirectorSearchResolved
    \/ DirectorSearchDone \/ AnalysisDone \/ TimekeeperDone \/ InterceptorDone
    \/ RetrievalDone \/ GenerationDone \/ ReflexiveSearchDone
    \/ RedundancyCheckDone \/ CorrectionDone \/ DedupRefineDone \/ WriteSettled

FairSpec ==
    /\ Spec
    /\ WF_vars(Continue)
    /\ \A t \in Tasks : WF_vars(FetchTimeout(t)) /\ WF_vars(BackoffElapsed(t))

\* ================================================================== claims

\* ---- the retry engine

Pow2(n) == 2 ^ n

Sum3(w) == IF Len(w) = 0 THEN 0 ELSE IF Len(w) = 1 THEN w[1]
           ELSE IF Len(w) = 2 THEN w[1] + w[2] ELSE w[1] + w[2] + w[3]

\* C1: one invocation of fetchWithCognitiveRetry issues at most MAX_RETRIES = 3
\* HTTP requests to the inference service.
C1_AtMostThreeRequests ==
    \A t \in Tasks : eng[t].requests <= 3

\* an invocation whose third request has failed
C1_ThirdRequestFailed ==
    \E t \in Tasks : eng[t].requests = 3 /\ eng[t].attempts = 3
                     /\ eng[t].epc = "returned"

\* C2: once a request of an invocation has been answered with status 401 or
\* 403, the invocation issues no further request and enters no backoff wait.
C2_AuthFailureNotRetried ==
    \A t \in Tasks :
        eng[t].authAt # 0 =>
            /\ eng[t].requests = eng[t].authAt
            /\ eng[t].epc # "sleep"
            /\ Len(eng[t].waits) = eng[t].authAt - 1

\* C3: an invocation that received status 401 or 403 ends in a failure
\* propagated to its caller: it returns no value to the pipeline, neither the
\* neutral fallback nor a later attempt's answer.
C3_AuthFailurePropagates ==
    \A t \in Tasks :
        eng[t].authAt # 0 => eng[t].epc # "returned"

\* C4: when three attempts of an invocation have failed in retryable ways
\* (timeout, network error, status other than 200/401/403, unparsable or
\* invalid body), the invocation has returned normally, and what it returned
\* is the neutral fallback: mood NEUTRAL, response "...".
C4_ExhaustionReturnsFallback ==
    \A t \in Tasks :
        (eng[t].attempts >= 3 /\ eng[t].authAt = 0) =>
            /\ eng[t].epc = "returned"
            /\ eng[t].result.parsed = [mood |-> "NEUTRAL", response |-> "..."]

\* an invocation exhausted by retryable failures only
C4_ExhaustedByRetryableFailures ==
    \E t \in Tasks : eng[t].attempts = 3 /\ eng[t].authAt = 0
                     /\ eng[t].epc = "returned" /\ eng[t].requests = 3

\* C5 as stated: an invocation whose three attempts all failed has slept
\* 1, 2 and 4 time units, 7 in total.
C5_SevenUnitsOnExhaustion ==
    \A t \in Tasks :
        (eng[t].epc = "returned" /\ eng[t].attempts = 3) =>
            /\ Len(eng[t].waits) = 3
            /\ Sum3(eng[t].waits) = 7 * InitialDelay

\* C5, amended: the k-th backoff wait of an invocation lasts 2^(k-1) time
\* units; an invocation sleeps only between two requests, so at most twice,
\* and one whose three attempts all failed has slept 1 + 2 = 3 time units
\* (there is no wait after the third failure).
C5_BackoffDoublesBetweenRequests ==
    \A t \in Tasks :
        /\ \A k \in DOMAIN eng[t].waits :
               eng[t].waits[k] = Pow2(k - 1) * InitialDelay
        /\ eng[t].requests > 0 => Len(eng[t].waits) = eng[t].requests - 1
        /\ (eng[t].epc = "returned" /\ eng[t].attempts = 3) =>
               Sum3(eng[t].waits) = 3 * InitialDelay

\* an exhausted invocation, which has been through both waits
C5_SleptTwice ==
    \E t \in Tasks : eng[t].epc = "returned" /\ eng[t].attempts = 3
                     /\ Len(eng[t].waits) = 2

\* C6: every attempt is bounded by its deadline, so an invocation that is in
\* progress always comes to return, whatever the inference service does.
C6_EveryInvocationReturns ==
    \A t \in Tasks :
        (eng[t].epc \in {"fetch", "body", "sleep"}) ~> (eng[t].epc = "returned")

\* C7: a value returned by an invocation satisfies the validator the caller
\* passed for it.
C7_ReturnedValueIsValidated ==
    \A t \in Tasks :
        eng[t].epc = "returned" => Validator(eng[t].label, eng[t].result.parsed)

\* ---- the pipeline

\* C8: processMemoryChat never rejects: every failure inside a turn is turned
\* into a reply.
C8_TurnNeverRejects ==
    outcome # "rejected"

\* C9: every reply of a turn is an object with a response and a mood.
C9_ReplyHasResponseAndMood ==
    outcome = "replied" =>
        /\ Has(reply.content, "response")
        /\ Has(reply.content, "mood")

Count(gates, g) == Cardinality({k \in DOMAIN gates : gates[k] = g})

\* C10 as stated: every entry written to the store has passed at least one
\* gate: the Timekeeper if its importance is >= 4, the duplicate check if a
\* retrieved-context cache exists.
C10_EveryWriteGated ==
    \A k \in DOMAIN writes :
        /\ writes[k].importance >= 4 => Count(writes[k].gates, "Timekeeper") = 1
        /\ writes[k].ctx # "" => Count(writes[k].gates, "DedupRefine") = 1
        /\ writes[k].gates # <<>>

\* C10, amended: an entry written to the store has passed the Timekeeper
\* exactly once if its importance is >= 4 and never otherwise, and the
\* duplicate check exactly once if the retrieved-context cache it was compared
\* with is longer than 50 characters and never otherwise; so an entry of
\* importance < 4 met by a cache of at most 50 characters is written ungated.
C10_GatesByImportanceAndCache ==
    \A k \in DOMAIN writes :
        /\ Count(writes[k].gates, "Timekeeper") =
               (IF writes[k].importance >= 4 THEN 1 ELSE 0)
        /\ Count(writes[k].gates, "DedupRefine") =
               (IF Len(writes[k].ctx) > 50 THEN 1 ELSE 0)

\* an entry of importance >= 4 written after both gates
C10_WrittenThroughBothGates ==
    \E k \in DOMAIN writes :
        /\ writes[k].importance >= 4
        /\ writes[k].gates = <<"Timekeeper", "DedupRefine">>

\* ---- Director mode: STORE

Wrote(action) == \E k \in DOMAIN storeReqs : storeReqs[k].action = action

StoreTurnReplied ==
    /\ outcome = "replied" /\ inp.director /\ inp.url
    /\ Get(aiRes, "intent", "") = "STORE"

\* C11: a Director STORE turn whose fact is identical to a fact the store
\* holds for the same entity (the retrieval of the prior facts returned it)
\* replies "already recorded" and dispatches no store_director_fact write.
C11_IdenticalFactNeverWritten ==
    (/\ StoreTurnReplied
     /\ Has(aiRes, "entity_name") /\ Has(aiRes, "fact_to_store")
     /\ Has(loc, "existing")
     /\ \E k \in DOMAIN loc.existing :
           loc.existing[k] = [Entity |-> aiRes.entity_name,
                              Fact |-> aiRes.fact_to_store])
    => (reply = AlreadyRecorded /\ ~Wrote("store_director_fact"))

\* C12: in a Director STORE turn whose combined check returned a verdict: a
\* duplicate (with or without contradiction) gets the "already recorded"
\* reply and a contradiction without duplicate the overwrite warning, both
\* without a write; and whenever a store_director_fact write is dispatched,
\* no verdict had reported a duplicate or a contradiction.
C12_VerdictDecidesTheWrite ==
    (StoreTurnReplied /\ Has(loc, "dedupCheck")) =>
              LET dup == IsTrue(loc.dedupCheck, "is_duplicate")
                  con == IsTrue(loc.dedupCheck, "is_contradiction")
              IN  /\ dup => (/\ reply.content.response =
                                   "I already have that recorded in the archives."
                             /\ ~Wrote("store_director_fact"))
                  /\ (con /\ ~dup) =>
                        (/\ reply.content.mood = "QUESTION"
                         /\ reply.content.response =
                               Get(loc.dedupCheck, "warning_message", "undefined")
                                  \o " Shall I overwrite the old data?"
                         /\ ~Wrote("store_director_fact"))
                  /\ Wrote("store_director_fact") => (~dup /\ ~con)

\* a verdict reporting both a duplicate and a contradiction
C12_BothReported ==
    /\ StoreTurnReplied /\ Has(loc, "dedupCheck")
    /\ IsTrue(loc.dedupCheck, "is_duplicate")
    /\ IsTrue(loc.dedupCheck, "is_contradiction")

\* ---- Director mode: SEARCH

\* a SEARCH turn that replied after the director_search answer arrived
SearchTurnReplied ==
    /\ outcome = "replied" /\ inp.director /\ inp.url
    /\ Get(aiRes, "intent", "") = "SEARCH"
    /\ Has(loc, "searchRes")

\* the name or the description of file f contains the term ex, case ignored
Mentions(f, ex) ==
    \/ Includes(ToLowerCase(f.name), ToLowerCase(ex))
    \/ Has(f, "description") /\ Includes(ToLowerCase(f.description), ToLowerCase(ex))

Excluded(f) ==
    \E i \in DOMAIN loc.excludeKeywords : Mentions(f, loc.excludeKeywords[i])

\* C13: in a SEARCH turn with a non-empty exclude set, no file of the reply
\* has a name or description containing an excluded term, whatever the
\* storage service returned.
C13_NoExcludedFileReturned ==
    (SearchTurnReplied /\ Len(loc.excludeKeywords) > 0 /\ Has(reply, "files")) =>
        \A k \in DOMAIN reply.files : ~Excluded(reply.files[k])

\* the storage service sent files and the exclusion leaves none of them
AllFilesExcluded ==
    /\ Len(loc.excludeKeywords) > 0
    /\ Has(loc.searchRes, "files") /\ Len(loc.searchRes.files) > 0
    /\ \A k \in DOMAIN loc.searchRes.files : Excluded(loc.searchRes.files[k])

PlainNotFound ==
    /\ reply.directorAction = "PLAY_MEDIA"
    /\ reply.content = [response |-> "No matching footage found.", mood |-> "SAD"]

FallbackReply ==
    /\ reply.directorAction = "SHOW_DECKS"
    /\ reply.deckKeywords = loc.finalKeywords
    /\ reply.files = <<>>
    /\ reply.content.mood = "QUESTION"

\* C14: when the storage service reported a non-empty result set and the
\* exclusion removes every file of it, the reply is the not-found reply or
\* the cooperative fallback, never the success reply.
C14_EmptiedResultIsNotFound ==
    (SearchTurnReplied /\ AllFilesExcluded) => (PlainNotFound \/ FallbackReply)

\* the storage service reported found with files, all of them excluded
C14_FoundSetEmptied ==
    SearchTurnReplied /\ AllFilesExcluded /\ IsTrue(loc.searchRes, "found")

\* C15: a SEARCH that is not found (reported so by the storage service, or
\* emptied by the exclusion) gets the cooperative fallback when more than one
\* positive constraint is in force, and the plain not-found reply otherwise.
C15_FallbackOnlyForSeveralConstraints ==
    (SearchTurnReplied /\ (~IsTrue(loc.searchRes, "found") \/ AllFilesExcluded)) =>
        IF Len(loc.finalKeywords) > 1 THEN FallbackReply ELSE PlainNotFound

\* a search not found under two constraints, answered by the fallback
C15_NotFoundUnderTwoConstraints ==
    /\ SearchTurnReplied /\ ~IsTrue(loc.searchRes, "found")
    /\ Len(loc.finalKeywords) = 2 /\ FallbackReply

\* ---- Standard mode

Called(label) == \E k \in DOMAIN calls : calls[k] = label

\* the Timekeeper has returned valid = false in the current turn
TimekeeperRefused ==
    /\ ~inp.director
    /\ Has(loc, "timeResult") /\ Has(loc.timeResult, "valid")
    /\ loc.timeResult.valid = FALSE

\* C16: once the Timekeeper has returned valid = false for an entry, the turn
\* makes no Global Retrieval, no Generation and no store_atomic write (the
\* persistence task is not started), and the reply it gives is the
\* interception reply: mood CURIOUS, no roots.
C16_InterceptionEndsTheTurn ==
    TimekeeperRefused =>
        /\ ~Called("Generation") /\ ~Wrote("retrieve") /\ ~Wrote("store_atomic")
        /\ ppc = "idle" /\ writes = <<>>
        /\ outcome # "rejected"
        /\ outcome = "replied" =>
              (reply.content.mood = "CURIOUS" /\ reply.content.roots = <<>>)

\* an interception after an entry validated earlier in the same turn
C16_InterceptedAfterValidEntry ==
    /\ TimekeeperRefused /\ outcome = "replied"
    /\ loc.idx = 2 /\ loc.entries[2].importance >= 4
    /\ Len(loc.validEntries) = 1
    /\ loc.validEntries[1].gates = <<"Timekeeper">>

\* the persistence task of the current turn has been started
PersistenceStarted == DOMAIN ploc # {}

\* C17: from the moment the persistence task is started, whatever it does
\* and however far it has got, the turn has replied (it has not failed and is
\* not waiting), and the reply is the Generation result as it stood at the
\* return.
C17_ReplyIndependentOfPersistence ==
    PersistenceStarted =>
        /\ outcome = "replied" /\ pc = "idle"
        /\ reply = Msg(loc.gen.cleaned)

\* the store_atomic write of a replied turn has failed
C17_WriteFailedAfterReply ==
    /\ PersistenceStarted /\ ppc = "p_store"
    /\ sreq["persist"].st = "rejected" /\ outcome = "replied"

\* ---- the retrieved-context cache

\* C18: after the Global Retrieval of a Standard-mode turn, the cache holds
\* what that retrieval found and nothing else (nothing, when it found nothing
\* or failed), and the duplicate check of the turn's persistence task runs
\* against that context.
C18_CacheIsTurnScoped ==
    (/\ ~inp.director /\ inp.url /\ outcome \in {"running", "replied"}
     /\ Has(loc, "retrievedContext") /\ pc # "s_retrieve")
    => /\ cache = loc.retrievedContext
       /\ ppc = "p_dedup" => ploc.ctx = loc.retrievedContext

\* C19: every value of the cache that the persistence task of a turn has read
\* (for its duplicate check or the write that follows) is the value the cache
\* had when that turn handed over to the task, never one written by a later
\* turn.
C19_PersistenceReadsOwnContext ==
    /\ ppc # "idle" => ploc.ctx = ploc.own
    /\ PersistenceStarted => \A k \in DOMAIN writes : writes[k].ctx = ploc.own

\* ---- the knowledge graph

\* a graph of at most 3 roots, 5 branches in a root and 5 leaves in a branch
WithinCaps(roots) ==
    /\ Len(roots) <= 3
    /\ \A i \in DOMAIN roots :
          Has(roots[i], "branches") =>
              /\ Len(roots[i].branches) <= 5
              /\ \A j \in DOMAIN roots[i].branches :
                    Has(roots[i].branches[j], "leaves") =>
                        Len(roots[i].branches[j].leaves) <= 5

\* C20: the graph in a Standard-mode reply and every graph handed to
\* window.updateGraphData has at most 3 roots, 5 branches in a root and 5
\* leaves in a branch.
C20_GraphWithinCaps ==
    /\ \A k \in DOMAIN graphs : WithinCaps(graphs[k])
    /\ (outcome = "replied" /\ ~inp.director /\ Has(reply.content, "roots")) =>
           WithinCaps(reply.content.roots)

\* ---- Mood Sanitization

\* a Standard-mode turn has gone through the Mood Sanitizer and returned
SanitizedTurnReplied == pc = "idle" /\ Has(loc, "gen") /\ Has(reply, "content")

\* the normal form of a generated mood: upper case and trimmed, NEUTRAL when
\* the object carries none
NormalMood(o) == IF Has(o, "mood") THEN Trim(ToUpperCase(o.mood)) ELSE "NEUTRAL"

\* the moods of the roots and branches handed to window.updateGraphData are
\* the normal forms of the moods of the generated roots and branches
GraphMoodsNormal(generated, handed) ==
    /\ DOMAIN handed = DOMAIN generated
    /\ \A i \in DOMAIN generated :
          /\ handed[i].mood = NormalMood(generated[i])
          /\ Has(generated[i], "branches") =>
                \A j \in DOMAIN generated[i].branches :
                    handed[i].branches[j].mood = NormalMood(generated[i].branches[j])

\* C21: after Mood Sanitization the global mood in window.currentMood and the
\* mood of every root and branch passed to window.updateGraphData are the
\* upper-case, trimmed form of the generated value, NEUTRAL when the generated
\* value is absent.
C21_EveryMoodNormalized ==
    SanitizedTurnReplied =>
        /\ currentMood = NormalMood(reply.content)
        /\ Has(reply.content, "roots") =>
              /\ Len(graphs) = 1
              /\ GraphMoodsNormal(reply.content.roots, graphs[1])

\* C22: the mood in the reply content of a Standard-mode turn equals the
\* upper-case, trimmed form of the mood the inference service generated.
C22_ReplyMoodNormalized ==
    (SanitizedTurnReplied /\ Has(loc.gen.parsed, "mood")) =>
        /\ Has(reply.content, "mood")
        /\ reply.content.mood = Trim(ToUpperCase(loc.gen.parsed.mood))

\* ---- Session Bootstrap

\* the bootstrap has read an answer that carries a history
HistoryLoaded == boot.pc = "done" /\ Has(boot.res, "history")

\* the last loaded row's timestamp is an instant more than 6 hours before now
LastRowStale(rows) ==
    /\ Len(rows) > 0
    /\ Len(rows[Len(rows)]) >= 1
    /\ Has(rows[Len(rows)][1], "ms")
    /\ Now - rows[Len(rows)][1].ms > 6 * 3600000

\* the k-th message of the session history is the k-th loaded row
SameMessage(m, row) ==
    /\ Has(m, "timestamp") = (Len(row) >= 1)
    /\ Has(m, "role") = (Len(row) >= 2)
    /\ Has(m, "content") = (Len(row) >= 3)
    /\ Len(row) >= 1 => m.timestamp = row[1]
    /\ Len(row) >= 2 => m.role = row[2]
    /\ Len(row) >= 3 => m.content = row[3]

\* C23: after a history is loaded, the session history is the loaded messages
\* in storage order, followed by exactly one synthetic system message if and
\* only if the history is non-empty and its last message's timestamp is more
\* than 6 hours before now; no loaded message is dropped or reordered.
C23_HistoryIsLoadedRowsPlusGapNote ==
    HistoryLoaded =>
        LET rows == boot.res.history
            n    == Len(rows)
        IN  /\ Len(chatHistory) = IF LastRowStale(rows) THEN n + 1 ELSE n
            /\ \A k \in 1..n : SameMessage(chatHistory[k], rows[k])
            /\ LastRowStale(rows) =>
                  /\ chatHistory[n + 1].role = "system"
                  /\ ~Has(chatHistory[n + 1], "timestamp")

\* two rows were loaded, the last one a millisecond more than 6 hours old, and
\* the note follows them
C23_StaleHistoryAnnotated ==
    /\ HistoryLoaded
    /\ Len(boot.res.history) = 2
    /\ boot.res.history[2][1] = Instant(Now - 6 * 3600000 - 1)
    /\ Len(chatHistory) = 3
    /\ chatHistory[3].role = "system"

\* C24: when the storage service is unreachable or its answer cannot be read,
\* the bootstrap completes without raising an error and the session history
\* is empty.
C24_FailedBootstrapIsQuiet ==
    boot.failed => (boot.pc = "done" /\ chatHistory = <<>>)

\* the answer could not be read; the bootstrap is over
C24_BootstrapFailed == boot.failed /\ boot.pc = "done"

\* ---- Director mode: ambiguity, missing constraints, routing

\* the ambiguity check of a Director SEARCH turn answered AMBIGUOUS
JudgedAmbiguous ==
    /\ inp.director
    /\ Get(aiRes, "intent", "") = "SEARCH"
    /\ Has(loc, "ambiguityCheck")
    /\ Get(loc.ambiguityCheck, "status", "") = "AMBIGUOUS"

\* C25: a Director SEARCH turn whose ambiguity check answers AMBIGUOUS replies
\* with the clarification question of that answer, mood QUESTION, and
\* dispatches no director_search request.
C25_AmbiguousAsksInsteadOfSearching ==
    JudgedAmbiguous =>
        /\ outcome = "replied"
        /\ reply.content.mood = "QUESTION"
        /\ Has(loc.ambiguityCheck, "clarification_question") =>
              /\ Has(reply.content, "response")
              /\ reply.content.response = loc.ambiguityCheck.clarification_question
        /\ ~Wrote("director_search")

\* the clarification question "Which Brent?" was put to the user
C25_ClarificationAsked ==
    /\ JudgedAmbiguous
    /\ outcome = "replied"
    /\ Has(reply.content, "response") /\ reply.content.response = "Which Brent?"

\* DirectorAI classified the turn as CHAT and named no positive constraint
ChatWithoutConstraints ==
    /\ inp.director
    /\ Get(aiRes, "intent", "") = "CHAT"
    /\ Len(Get(aiRes, "positive_constraints", <<>>)) = 0

\* C26: a Director CHAT turn without positive constraints replies with the
\* fixed "need more specific names or traits" reply, sends no retrieval
\* request to the store and makes no further inference call.
C26_NoConstraintsNoLookup ==
    ChatWithoutConstraints =>
        /\ outcome = "replied"
        /\ reply.content.response =
              "I need more specific names or traits to search the archive."
        /\ reply.content.mood = "CRYPTIC"
        /\ ~Wrote("retrieve_director_memory")
        /\ calls = <<"DirectorAI">>

\* the classification carried an empty list of constraints, with a storage URL
\* configured
C26_EmptyConstraintListReplied ==
    /\ ChatWithoutConstraints
    /\ inp.url
    /\ Has(aiRes, "positive_constraints")
    /\ outcome = "replied"

DirectorTurn == inp.director /\ outcome # "idle"

StandardLabels ==
    {"Hybrid Analysis", "Timekeeper", "Interceptor", "Generation",
     "RedundancyCheck", "CorrectionGeneration", "DedupRefine"}

\* the branch an engine call or a storage request of Director mode belongs to
BranchOfCall(label) ==
    CASE label = "DirectorDedup" -> "STORE"
      [] label = "DirectorAmbiguity" -> "SEARCH"
      [] label \in {"DirectorFilter", "DirectorContextChat"} -> "CHAT"
      [] OTHER -> ""

\* C27: a Director-mode turn makes exactly one DirectorAI (ClassifyIntent)
\* call, every other call and every write or search belongs to the one branch
\* its intent selects, and it runs no Standard-mode stage: no Analysis,
\* Timekeeper, Global Retrieval or Generation call and no store_atomic write.
C27_DirectorTurnStaysInItsBranch ==
    DirectorTurn =>
        /\ Count(calls, "DirectorAI") = 1
        /\ calls[1] = "DirectorAI"
        /\ \A k \in DOMAIN calls :
              /\ calls[k] \notin StandardLabels
              /\ k > 1 => BranchOfCall(calls[k]) = Get(aiRes, "intent", "")
        /\ Wrote("store_director_fact") => Get(aiRes, "intent", "") = "STORE"
        /\ Wrote("director_search") => Get(aiRes, "intent", "") = "SEARCH"
        /\ ~Wrote("retrieve") /\ ~Wrote("store_atomic")
        /\ writes = <<>> /\ ppc = "idle"
        /\ outcome \in {"replied", "rejected"} => pc = "idle"

\* a Director turn of an intent without a branch replied through the
\* fall-through after its one call
C27_FallThroughReplied ==
    /\ DirectorTurn /\ outcome = "replied"
    /\ Get(aiRes, "intent", "") = "DELETE"
    /\ calls = <<"DirectorAI">>

\* ---- sequencing of the Standard-mode stages

\* the turn has an inference call, or a storage request it awaits, in flight
EngineBusy == eng["turn"].epc \in {"fetch", "body", "sleep"}

StoreBusy == sreq["turn"].st = "pending"

\* the stage a call belongs to: Analysis, Timekeeper, Global Retrieval,
\* Generation, Redundancy Guard
StageOf(label) ==
    CASE label = "Hybrid Analysis" -> 1
      [] label \in {"Timekeeper", "Interceptor"} -> 2
      [] label = "Generation" -> 4
      [] label \in {"RedundancyCheck", "CorrectionGeneration"} -> 5
      [] OTHER -> 0

\* the stage of the call the turn awaits at position p
StageAt(p) ==
    CASE p = "s_analysis" -> 1
      [] p \in {"s_timekeeper", "s_intercept"} -> 2
      [] p = "s_retrieve" -> 3
      [] p = "s_generation" -> 4
      [] p \in {"s_reflex", "s_redundancy", "s_correction"} -> 5
      [] OTHER -> 0

\* C28: within a turn at most one retrieval, validation or generation call is
\* in flight at any time, a call starts only when no other call of the turn
\* is in flight, and the calls of a Standard-mode turn are made in the order
\* of the stages: Analysis, Timekeeper, Global Retrieval, Generation,
\* Redundancy Guard.
C28_StagesStrictlySequential ==
    [][/\ ~(EngineBusy' /\ StoreBusy')
       /\ (calls' # calls \/ (StoreBusy' /\ ~StoreBusy)) =>
             (~EngineBusy /\ ~StoreBusy)
       /\ \A i, j \in DOMAIN calls' :
             i < j => StageOf(calls'[i]) <= StageOf(calls'[j])
       /\ (StageAt(pc') > 0) =>
             \A i \in DOMAIN calls' : StageOf(calls'[i]) <= StageAt(pc')]_vars

\* the Redundancy Guard's correction call is in flight after the calls of all
\* the earlier stages
C28_CorrectionInFlight ==
    /\ ~inp.director /\ pc = "s_correction" /\ EngineBusy
    /\ Called("Timekeeper") /\ Wrote("retrieve") /\ Called("RedundancyCheck")

\* ---- Director mode: CHAT drill-down

\* the retrieve_director_memory requests of the turn, in order
RetrievalsSent ==
    SelectSeq(storeReqs, LAMBDA q : q.action = "retrieve_director_memory")

\* a Director CHAT turn has sent its drill-down request, the second retrieval
DrillSent ==
    /\ inp.director /\ Get(aiRes, "intent", "") = "CHAT"
    /\ Len(RetrievalsSent) >= 2

\* entities the primary retrieval named
Discovered == {loc.allMemories[i].Entity : i \in DOMAIN loc.allMemories}

\* C29: the drill-down of a CHAT turn is requested for at most 15 entities,
\* each of them discovered by the primary retrieval and none of them a
\* positive constraint, and no drill-down is requested for an empty list.
C29_DrillDownBoundedAndFresh ==
    (inp.director /\ Get(aiRes, "intent", "") = "CHAT") =>
        /\ Len(RetrievalsSent) <= 2
        /\ DrillSent =>
              LET targets == RetrievalsSent[2].kw
              IN  /\ Len(targets) > 0
                  /\ Len(targets) <= 15
                  /\ \A k \in DOMAIN targets :
                        /\ targets[k] \in Discovered
                        /\ \A c \in DOMAIN aiRes.positive_constraints :
                              targets[k] # aiRes.positive_constraints[c]

\* more than 15 fresh entities were discovered and 15 of them were requested
C29_DrillDownCut ==
    /\ DrillSent
    /\ pc = "d_chat_drill"
    /\ Cardinality(Discovered \ {"Brent"}) > 15
    /\ Len(RetrievalsSent[2].kw) = 15

\* the drill-down of a Director CHAT turn has been answered and merged: the
\* merged list goes to DirectorFilter
DrillMerged ==
    /\ DrillSent
    /\ Called("DirectorFilter")
    /\ Has(loc, "allMemories")

\* C30: the fact list merged from the primary retrieval and the drill-down
\* retrieval of a CHAT turn holds each literal fact text at most once.
C30_MergedFactsUnique ==
    DrillMerged =>
        \A i, j \in DOMAIN loc.allMemories :
            i # j => loc.allMemories[i].Fact # loc.allMemories[j].Fact

\* ---- Step 5: what the persistence task writes

\* the persistence task of the last turn has gone through all its entries
PersistenceDone == ppc = "idle" /\ Has(ploc, "entries") /\ Has(loc, "entries")

\* the DedupRefine verdict kept with entry i is DUPLICATE
JudgedDuplicate(i) ==
    /\ Has(ploc.entries[i], "check")
    /\ Get(ploc.entries[i].check, "status", "") = "DUPLICATE"

\* the indices of sequence q that satisfy Keep, in order
Indices(q, Keep(_)) == SelectSeq([i \in 1..Len(q) |-> i], Keep)

\* the retained entries with a non-empty fact that were not judged duplicates
NonEmptyKept ==
    Indices(loc.entries, LAMBDA i : TruthyStr(loc.entries[i], "fact") /\ ~JudgedDuplicate(i))

\* the same, without the entries whose fact is the text "null"
NamedKept ==
    Indices(loc.entries, LAMBDA i : /\ TruthyStr(loc.entries[i], "fact")
                                    /\ loc.entries[i].fact # "null"
                                    /\ ~JudgedDuplicate(i))

\* C31 as stated: when the persistence task is over, the store_atomic writes
\* are, in order, one for every retained entry with a non-empty fact that was
\* not judged DUPLICATE, each carrying the refined fact when the check
\* supplied one and the entry's own fact otherwise.
C31_WritesFollowVerdicts ==
    PersistenceDone =>
        /\ Len(writes) = Len(NonEmptyKept)
        /\ \A k \in DOMAIN writes :
              k <= Len(NonEmptyKept) =>
                  LET i == NonEmptyKept[k]
                  IN  writes[k].fact =
                        IF Has(ploc.entries[i], "check")
                           /\ TruthyStr(ploc.entries[i].check, "better_fact")
                        THEN ploc.entries[i].check.better_fact
                        ELSE loc.entries[i].fact

\* C31 amended: the entries written are those whose fact is neither empty nor
\* the text "null" and that were not judged DUPLICATE, each exactly once and
\* in order; a write carries the refined fact when the check supplied one
\* longer than 5 characters, and the entry's own fact otherwise.
C31_WritesFollowVerdictsAmended ==
    PersistenceDone =>
        /\ Len(writes) = Len(NamedKept)
        /\ \A k \in DOMAIN writes :
              k <= Len(NamedKept) =>
                  LET i == NamedKept[k]
                  IN  writes[k].fact =
                        IF Has(ploc.entries[i], "check")
                           /\ TruthyStr(ploc.entries[i].check, "better_fact")
                           /\ Len(ploc.entries[i].check.better_fact) > 5
                        THEN ploc.entries[i].check.better_fact
                        ELSE loc.entries[i].fact

\* of two entries the first was judged DUPLICATE and skipped, the second was
\* written with its refined fact
C31_DuplicateSkippedOtherRefined ==
    /\ PersistenceDone
    /\ Len(loc.entries) = 2
    /\ JudgedDuplicate(1)
    /\ Len(writes) = 1
    /\ writes[1].fact = "visited the zoo"

\* ---- the Redundancy Guard

\* the retrieve requests of the turn: the Global Retrieval and the reflexive one
RetrievesSent == SelectSeq(storeReqs, LAMBDA q : q.action = "retrieve")

CompanionTurn == ~inp.director /\ ~inp.question /\ outcome # "idle"

\* the turn went through Generation and replied
GenerationReplied == outcome = "replied" /\ Has(loc, "gen")

JudgedRedundant ==
    Has(loc, "sanityCheck") /\ IsTrue(loc.sanityCheck, "is_redundant")

\* C33: a Standard turn that replies after Generation returns the output of
\* CorrectionGeneration when, in interrogation mode, the reflexive retrieval
\* found results and RedundancyCheck judged the candidate redundant; in every
\* other case it returns the Generation output and makes no correction call.
C33_RegeneratedOnlyWhenRedundant ==
    GenerationReplied =>
        /\ JudgedRedundant <=> Has(loc, "retryResult")
        /\ JudgedRedundant =>
              /\ inp.question
              /\ Len(RetrievesSent) >= 1
              /\ Called("CorrectionGeneration")
              /\ reply.content = loc.retryResult.cleaned
        /\ ~JudgedRedundant =>
              /\ ~Called("CorrectionGeneration")
              /\ reply.content = loc.gen.cleaned

\* the candidate "Where does Jemi work" was judged redundant and the reply is
\* the regenerated question
C33_RegeneratedReplied ==
    /\ GenerationReplied
    /\ JudgedRedundant
    /\ reply.content.response = "New topic?"

\* ---- Global Retrieval: the deep anchor

\* the user turns of the scanned history
ScannedUsers == SelectSeq(scan.history, LAMBDA h : h.role = "user")

\* the user turns among the 5 most recent that have a candidate token
AnchorHits ==
    {i \in 1..Len(ScannedUsers) :
        /\ i > Len(ScannedUsers) - 5
        /\ ValidCaps(ScannedUsers[i].content) # <<>>}

C35_WaitsOnlyBetweenRetryableFailures ==
    \A t \in Tasks :
        /\ eng[t].epc = "sleep" => (eng[t].attempts < 3 /\ eng[t].authAt = 0)
        /\ eng[t].authAt # 0 => Len(eng[t].waits) < eng[t].authAt
        /\ eng[t].epc = "returned" => Len(eng[t].waits) = eng[t].requests - 1

\* the part of C35 that does not depend on the kind of failure: a wait is
\* entered only with an attempt left, and a returned invocation has waited
\* once between any two of its requests and not after the last
C35_EveryWaitIsFollowedByARequest ==
    \A t \in Tasks :
        /\ eng[t].epc = "sleep" =>
              (eng[t].attempts < 3 /\ Len(eng[t].waits) = eng[t].requests - 1)
        /\ eng[t].epc = "returned" => Len(eng[t].waits) = eng[t].requests - 1

\* ---- the Timekeeper when the inference service is unavailable

\* C36: a Standard turn calls the Interceptor only after the Timekeeper has
\* actually answered valid = false; when the Timekeeper call ended with the
\* engine's neutral fallback (the service was unavailable for all three
\* attempts) the turn is not intercepted.
C36_UnavailableTimekeeperDoesNotIntercept ==
    (~inp.director /\ Called("Interceptor")) =>
        /\ Has(loc, "timeResult")
        /\ loc.timeResult # Fallback.parsed
        /\ Has(loc.timeResult, "valid") /\ loc.timeResult.valid = FALSE

\* ---- the retry engine: what an invocation returns, and when

\* C37: an invocation returns at the first attempt whose content parses and
\* passes the validator: whenever the content parsed in the current attempt
\* passes, the invocation has returned in that attempt (request number
\* attempts + 1, no request after it) and the parsed value it returns is that
\* content; what it returns otherwise is the fallback, and only once exactly
\* three attempts have failed.
C37_ReturnsFirstPassingAttempt ==
    \A t \in Tasks :
        LET e == eng[t]
        IN  /\ (e.parsedContent # <<>> /\ Validator(e.label, e.parsedContent[1])) =>
                  /\ e.epc = "returned"
                  /\ Has(e.result, "raw")
                  /\ e.result.parsed = e.parsedContent[1]
            /\ (e.epc = "returned" /\ Has(e.result, "raw")) =>
                  /\ e.parsedContent = <<e.result.parsed>>
                  /\ Validator(e.label, e.result.parsed)
                  /\ e.attempts < 3
                  /\ e.requests = e.attempts + 1
            /\ (e.epc = "returned" /\ ~Has(e.result, "raw")) =>
                  /\ e.result = Fallback
                  /\ e.attempts = 3
                  /\ e.requests = 3
            /\ e.epc # "returned" => e.result = NoResult

\* an invocation that returns the content of its third attempt, the first
\* one to pass, after two failed attempts
C37_ThirdAttemptPassed ==
    \E t \in Tasks :
        /\ eng[t].epc = "returned" /\ Has(eng[t].result, "raw")
        /\ eng[t].attempts = 2 /\ eng[t].requests = 3
        /\ eng[t].result.parsed = eng[t].parsedContent[1]

\* ---- Director mode: the fact write

FactWrites == {k \in DOMAIN storeReqs : storeReqs[k].action = "store_director_fact"}

\* C38: a turn dispatches store_director_fact at most once, and only a
\* Director turn of intent STORE does, as its last request, together with the
\* confirmation reply and after the duplicate / contradiction decision: the
\* verdict, when one was asked for, reported neither.  CHAT, SEARCH, the
\* fall-through and the "already recorded" and overwrite-warning replies
\* come without a fact write.
C38_FactWrittenOnceAfterDecision ==
    /\ Cardinality(FactWrites) <= 1
    /\ FactWrites # {} =>
          /\ inp.director
          /\ Get(aiRes, "intent", "") = "STORE"
          /\ FactWrites = {Len(storeReqs)}
          /\ outcome = "replied"
          /\ reply = StoreConfirmation(aiRes)
          /\ Count(calls, "DirectorDedup") <= 1
          /\ Has(loc, "dedupCheck") =>
                (/\ ~IsTrue(loc.dedupCheck, "is_duplicate")
                 /\ ~IsTrue(loc.dedupCheck, "is_contradiction"))

\* a fact written after a verdict that reported neither a duplicate nor a
\* contradiction
C38_FactWrittenAfterCleanVerdict ==
    /\ FactWrites # {} /\ outcome = "replied"
    /\ Called("DirectorDedup") /\ Has(loc, "dedupCheck")
    /\ Has(loc.dedupCheck, "is_duplicate")
    /\ Wrote("retrieve_director_memory")

\* ---- Standard mode: the number of inference calls of a turn

\* the entries Step 1 returned in the current turn
AnalysedEntries == Get(loc, "entries", <<>>)

\* C39: a Standard turn regenerates at most once: it makes at most one
\* RedundancyCheck call and at most one CorrectionGeneration call, the latter
\* only after the former, so that with one Analysis call, at most one
\* Timekeeper call per entry and one Interceptor or Generation call, the turn
\* makes at most (number of entries) + 4 inference calls.
C39_AtMostOneRegeneration ==
    ~inp.director =>
        /\ Count(calls, "RedundancyCheck") <= 1
        /\ Count(calls, "CorrectionGeneration") <= 1
        /\ Count(calls, "CorrectionGeneration") <= Count(calls, "RedundancyCheck")
        /\ Count(calls, "RedundancyCheck") <= Count(calls, "Generation")
        /\ Count(calls, "Hybrid Analysis") <= 1
        /\ Count(calls, "Timekeeper") <= Len(AnalysedEntries)
        /\ Count(calls, "Interceptor") + Count(calls, "Generation") <= 1
        /\ Len(calls) <= 1 + Len(AnalysedEntries) + 1 + 2

\* a replied turn that made every call the bound allows: Analysis, one
\* Timekeeper call for each of its entries, Generation, RedundancyCheck and
\* CorrectionGeneration
C39_BoundReached ==
    /\ ~inp.director /\ outcome = "replied"
    /\ Len(AnalysedEntries) = MaxEntries
    /\ Count(calls, "Timekeeper") = MaxEntries
    /\ Called("CorrectionGeneration")
    /\ Len(calls) = MaxEntries + 4
====
